---- MODULE Spec2Model ----
(***************************************************************************)
(* Protocol session and adaptive streaming engine of the QUIC              *)
(* communication system: the streaming handler                             *)
(* (internal/streaming/handler.go) and the telemetry (IoT) handler with    *)
(* its device registry and bounded queues (package iot).                   *)
(*                                                                         *)
(* Floating-point signals are kept in fixed point, in units of 1/10000:    *)
(* buffer_health 0.3 is 3000, packet_loss 0.05 is 500.                     *)
(***************************************************************************)
EXTENDS Integers, Sequences, FiniteSets, TLC

(***************************************************************************)
(* Bounds of the model.                                                    *)
(***************************************************************************)
\* chunks a session may emit before its ticker is no longer followed
MaxChunks == 2
\* time.Now().UnixNano()%100 as updateStreamStats draws it for BufferHealth
\* (the code: 0..99; 0 gives exactly 0.8, every other value a health above 0.8)
HealthNanos == {0, 99}
\* time.Now().UnixNano()%100 as updateStreamStats draws it for PacketLoss
\* (the code: 0..99, every one of them a loss below 0.01; 99 is the largest)
LossNanos == {99}
\* longest run of consecutive middle-zone ticks followed by the adaptation loop
MaxMidRun == 10

\* transport streams routed to the streaming handler (one goroutine each)
Streams == {"s1", "s2"}
\* stream_id values a client may put in its request
StreamIDs == {"a", "b"}
\* "no entry" of a map lookup, and the nil pointer
NoStream == "none"

(***************************************************************************)
(* The quality ladder: Handler.videoQualities as NewHandler builds it.     *)
(***************************************************************************)
videoQualities ==
  << [Name |-> "360p",  Width |-> 640,  Height |-> 360,  Bitrate |-> 500,  Framerate |-> 30],
     [Name |-> "480p",  Width |-> 854,  Height |-> 480,  Bitrate |-> 1000, Framerate |-> 30],
     [Name |-> "720p",  Width |-> 1280, Height |-> 720,  Bitrate |-> 2000, Framerate |-> 30],
     [Name |-> "1080p", Width |-> 1920, Height |-> 1080, Bitrate |-> 4000, Framerate |-> 30] >>

\* Handler.chunkDuration, in seconds
chunkDuration == 2

\* the zero value of VideoQuality
ZeroQuality == [Name |-> "", Width |-> 0, Height |-> 0, Bitrate |-> 0, Framerate |-> 0]

\* the zero value of StreamStats (the fields the handler's logic reads or counts)
ZeroStats == [BytesSent |-> 0, ChunksSent |-> 0, BufferHealth |-> 0, PacketLoss |-> 0]

\* int(^uint(0) >> 1), cut to the width of the checker's integers
MaxInt == 2147483647

abs(x) == IF x < 0 THEN 0 - x ELSE x

\* the qualities the StreamRequests of the state machine carry
RequestQualities ==
  { [Name |-> "720p", Width |-> 1280, Height |-> 720, Bitrate |-> 2000, Framerate |-> 30] }

(***************************************************************************)
(* validateQuality: first tier matching the name or the dimensions, else   *)
(* the tier closest in bitrate, else an error (ZeroQuality).               *)
(***************************************************************************)
RECURSIVE firstMatchIn(_, _, _)
firstMatchIn(ladder, i, requested) ==
  IF i > Len(ladder) THEN ZeroQuality
  ELSE IF \/ ladder[i].Name = requested.Name
          \/ (ladder[i].Width = requested.Width
              /\ ladder[i].Height = requested.Height)
       THEN ladder[i]
       ELSE firstMatchIn(ladder, i + 1, requested)

RECURSIVE closestIn(_, _, _, _, _)
closestIn(ladder, i, requested, minDiff, closest) ==
  IF i > Len(ladder) THEN closest
  ELSE LET diff == abs(ladder[i].Bitrate - requested.Bitrate)
       IN  IF diff < minDiff
           THEN closestIn(ladder, i + 1, requested, diff, ladder[i])
           ELSE closestIn(ladder, i + 1, requested, minDiff, closest)

\* a slip: a request that matches no tier by name or dimensions is refused
validateQualityInExact(ladder, requested) ==
  LET m == firstMatchIn(ladder, 1, requested)
  IN  IF m # ZeroQuality THEN [quality |-> m, ok |-> TRUE]
      ELSE [quality |-> ZeroQuality, ok |-> FALSE]

\* validateQuality over h.videoQualities = ladder.  [quality, ok]: ok = FALSE
\* is the "no suitable quality found" error
validateQualityIn(ladder, requested) ==
  LET m == firstMatchIn(ladder, 1, requested)
      c == closestIn(ladder, 1, requested, MaxInt, ZeroQuality)
  IN  IF \E i \in 1..Len(ladder) :
            \/ ladder[i].Name = requested.Name
            \/ (ladder[i].Width = requested.Width
                /\ ladder[i].Height = requested.Height)
      THEN [quality |-> m, ok |-> TRUE]
      ELSE IF c.Name = "" THEN [quality |-> ZeroQuality, ok |-> FALSE]
           ELSE [quality |-> c, ok |-> TRUE]

\* the loops of validateQuality over the ladder NewHandler builds
firstMatch(i, requested) == firstMatchIn(videoQualities, i, requested)

closestFrom(i, requested, minDiff, closest) ==
  closestIn(videoQualities, i, requested, minDiff, closest)

\* validateQuality of the handler NewHandler builds
validateQuality(requested) == validateQualityIn(videoQualities, requested)

\* calculateChunkSize: bitrate (kbps) to bytes per chunk
calculateChunkSize(quality) == ((quality.Bitrate * 1000) \div 8) * chunkDuration

\* a slip: only the first chunk of a session is a keyframe
generateVideoChunkFirstOnly(streamID, seq, quality, size) ==
  [StreamID |-> streamID, SequenceNum |-> seq, Quality |-> quality,
   Size |-> size, IsKeyframe |-> (seq = 0)]

\* generateVideoChunk: the chunk header (the payload bytes are not modelled)
generateVideoChunk(streamID, seq, quality, size) ==
  [StreamID |-> streamID, SequenceNum |-> seq, Quality |-> quality,
   Size |-> size, IsKeyframe |-> (seq % 30 = 0)]

(***************************************************************************)
(* Adaptation.                                                             *)
(***************************************************************************)
RECURSIVE downFrom(_, _)
downFrom(i, current) ==
  IF i > Len(videoQualities) THEN current
  ELSE IF videoQualities[i].Name = current.Name /\ i > 1
       THEN videoQualities[i - 1]
       ELSE downFrom(i + 1, current)

RECURSIVE upFrom(_, _)
upFrom(i, current) ==
  IF i > Len(videoQualities) THEN current
  ELSE IF videoQualities[i].Name = current.Name /\ i < Len(videoQualities)
       THEN videoQualities[i + 1]
       ELSE upFrom(i + 1, current)

\* a slip: every downgrade falls to the lowest tier
getDowngradedQualityToLowest(current) == videoQualities[1]

getDowngradedQuality(current) == downFrom(1, current)

getUpgradedQuality(current) == upFrom(1, current)

\* a slip: the step-down threshold on buffer health taken inclusively
adaptBitrateInclusive(currentQuality, bufferHealth, packetLoss) ==
  IF bufferHealth <= 3000 \/ packetLoss > 500
  THEN getDowngradedQuality(currentQuality)
  ELSE IF bufferHealth > 8000 /\ packetLoss < 100
       THEN getUpgradedQuality(currentQuality)
       ELSE currentQuality

\* a slip: the step-up condition joined with "or"
adaptBitrateEager(currentQuality, bufferHealth, packetLoss) ==
  IF bufferHealth < 3000 \/ packetLoss > 500
  THEN getDowngradedQuality(currentQuality)
  ELSE IF bufferHealth > 8000 \/ packetLoss < 100
       THEN getUpgradedQuality(currentQuality)
       ELSE currentQuality

\* adaptBitrate: the Quality the stream has after the call
adaptBitrate(currentQuality, bufferHealth, packetLoss) ==
  IF bufferHealth < 3000 \/ packetLoss > 500
  THEN LET newQuality == getDowngradedQuality(currentQuality)
       IN  IF newQuality.Name # currentQuality.Name THEN newQuality ELSE currentQuality
  ELSE IF bufferHealth > 8000 /\ packetLoss < 100
       THEN LET newQuality == getUpgradedQuality(currentQuality)
            IN  IF newQuality.Name # currentQuality.Name THEN newQuality ELSE currentQuality
       ELSE currentQuality

\* a slip: the bytes of the chunk are not added
updateStreamStatsChunksOnly(stats, chunk, nano1, nano2) ==
  [BytesSent    |-> stats.BytesSent,
   ChunksSent   |-> stats.ChunksSent + 1,
   BufferHealth |-> 8000 + 20 * nano1,
   PacketLoss   |-> nano2]

\* updateStreamStats: counters, and the simulated signals drawn from the clock
updateStreamStats(stats, chunk, nano1, nano2) ==
  [BytesSent    |-> stats.BytesSent + chunk.Size,
   ChunksSent   |-> stats.ChunksSent + 1,
   BufferHealth |-> 8000 + 20 * nano1,
   PacketLoss   |-> nano2]


(***************************************************************************)
(* State of the streaming handler.                                         *)
(***************************************************************************)
VARIABLES
  ctxCancelled,   \* the server context handed to every HandleStream is cancelled
  activeStreams,  \* Handler.activeStreams: stream_id -> the ActiveStream registered
  spc,            \* where the goroutine serving each transport stream stands
  sess,           \* the ActiveStream each goroutine built (startStream's arguments before)
  sequenceNum,    \* streamVideo's local sequenceNum
  chunkSize,      \* streamVideo's local chunkSize
  response,       \* the StreamResponse status written to each stream
  wire,           \* the chunk headers written to each stream, in order
  lastStop,       \* per stream_id: outcome of the last StopStream since a session registered
  prevStop        \* per stream_id: outcome of the StopStream call before that one

streamVars ==
  << ctxCancelled, activeStreams, spc, sess, sequenceNum, chunkSize, response,
     wire, lastStop, prevStop >>

\* an ActiveStream before startStream has built it
NoSession ==
  [ID |-> NoStream, Quality |-> ZeroQuality, AdaptiveBitrate |-> FALSE,
   Stats |-> ZeroStats, cancelled |-> FALSE]

NoReport == [stream |-> NoStream, stats |-> ZeroStats]

StreamInit ==
  /\ ctxCancelled = FALSE
  /\ activeStreams = [id \in StreamIDs |-> NoStream]
  /\ spc = [s \in Streams |-> "accepted"]
  /\ sess = [s \in Streams |-> NoSession]
  /\ sequenceNum = [s \in Streams |-> 0]
  /\ chunkSize = [s \in Streams |-> 0]
  /\ response = [s \in Streams |-> "none"]
  /\ wire = [s \in Streams |-> << >>]
  /\ lastStop = [id \in StreamIDs |-> "none"]
  /\ prevStop = [id \in StreamIDs |-> "none"]

\* a slip: the session's context is not derived from the server's
ctxDoneOwnOnly(s) == sess[s].cancelled

\* streamCtx.Done(): the session's own cancel was called, or the parent context's
ctxDone(s) == sess[s].cancelled \/ ctxCancelled

(***************************************************************************)
(* HandleStream: decode the request, resolve the quality, answer.          *)
(***************************************************************************)
\* a slip: the session starts although the response could not be written
HandleStreamFromUnanswered(ladder, requests, s) ==
  /\ spc[s] = "accepted"
  /\ \/ \* decoder.Decode fails
        /\ spc' = [spc EXCEPT ![s] = "closed"]
        /\ UNCHANGED << sess, response >>
     \/ \E id \in StreamIDs, requested \in requests, adaptive \in BOOLEAN,
           encodeOk \in BOOLEAN :
          LET v == validateQualityIn(ladder, requested)
          IN  IF ~v.ok
              THEN /\ response' = [response EXCEPT ![s] = IF encodeOk THEN "error" ELSE "none"]
                   /\ spc' = [spc EXCEPT ![s] = "closed"]
                   /\ UNCHANGED sess
              ELSE /\ response' = [response EXCEPT ![s] = IF encodeOk THEN "accepted" ELSE "none"]
                   /\ spc' = [spc EXCEPT ![s] = "start"]
                   /\ sess' = [sess EXCEPT ![s] =
                                 [NoSession EXCEPT !.ID = id, !.Quality = v.quality,
                                                   !.AdaptiveBitrate = adaptive]]
  /\ UNCHANGED << ctxCancelled, activeStreams, sequenceNum, chunkSize, wire,
                  lastStop, prevStop >>

HandleStreamFrom(ladder, requests, s) ==
  /\ spc[s] = "accepted"
  /\ \/ \* decoder.Decode fails
        /\ spc' = [spc EXCEPT ![s] = "closed"]
        /\ UNCHANGED << sess, response >>
     \/ \E id \in StreamIDs, requested \in requests, adaptive \in BOOLEAN,
           encodeOk \in BOOLEAN :
          LET v == validateQualityIn(ladder, requested)
          IN  IF ~v.ok
              THEN /\ response' = [response EXCEPT ![s] = IF encodeOk THEN "error" ELSE "none"]
                   /\ spc' = [spc EXCEPT ![s] = "closed"]
                   /\ UNCHANGED sess
              ELSE IF ~encodeOk
                   THEN /\ spc' = [spc EXCEPT ![s] = "closed"]
                        /\ UNCHANGED << sess, response >>
                   ELSE /\ response' = [response EXCEPT ![s] = "accepted"]
                        /\ spc' = [spc EXCEPT ![s] = "start"]
                        /\ sess' = [sess EXCEPT ![s] =
                                      [NoSession EXCEPT !.ID = id, !.Quality = v.quality,
                                                        !.AdaptiveBitrate = adaptive]]
  /\ UNCHANGED << ctxCancelled, activeStreams, sequenceNum, chunkSize, wire,
                  lastStop, prevStop >>

\* HandleStream of the handler NewHandler builds
HandleStream(s) == HandleStreamFrom(videoQualities, RequestQualities, s)

(***************************************************************************)
(* startStream up to the call of streamVideo: build the ActiveStream,      *)
(* register it under its stream_id (replacing whatever was there), and     *)
(* streamVideo's prologue (sequenceNum, chunkSize).                        *)
(***************************************************************************)
startStream(s) ==
  /\ spc[s] = "start"
  /\ activeStreams' = [activeStreams EXCEPT ![sess[s].ID] = s]
  /\ sequenceNum' = [sequenceNum EXCEPT ![s] = 0]
  /\ chunkSize' = [chunkSize EXCEPT ![s] = calculateChunkSize(sess[s].Quality)]
  /\ spc' = [spc EXCEPT ![s] = "loop"]
  /\ lastStop' = [lastStop EXCEPT ![sess[s].ID] = "none"]
  /\ prevStop' = [prevStop EXCEPT ![sess[s].ID] = "none"]
  /\ UNCHANGED << ctxCancelled, sess, response, wire >>

(***************************************************************************)
(* streamVideo, one turn of its loop through the ticker case: generate and *)
(* send the chunk; on a write error return; otherwise updateStreamStats,   *)
(* sequenceNum++ and, for an adaptive session, adaptBitrate.  The select   *)
(* may take the ticker case although the context is done: Go picks among   *)
(* the ready cases at random.                                              *)
(***************************************************************************)
\* sendChunk: what the stream holds after the three writes.  outcome "ok":
\* all writes succeed; "failData": the header is written, the payload write
\* fails; "failHeader": the size or the header write fails.
sendChunk(w, chunk, outcome) ==
  IF outcome = "ok" THEN Append(w, [header |-> chunk, complete |-> TRUE])
  ELSE IF outcome = "failData" THEN Append(w, [header |-> chunk, complete |-> FALSE])
  ELSE w

SendOutcomes == {"ok", "failData", "failHeader"}

\* a slip: the counter is not advanced
nextSequenceNumStuck(n) == n

\* sequenceNum++
nextSequenceNum(n) == n + 1

\* a slip: the adaptation runs for every session
nextQualityAlways(adaptive, quality, stats) ==
  adaptBitrate(quality, stats.BufferHealth, stats.PacketLoss)

\* if activeStream.AdaptiveBitrate { h.adaptBitrate(activeStream) }: the
\* session's quality after the tick
nextQuality(adaptive, quality, stats) ==
  IF adaptive THEN adaptBitrate(quality, stats.BufferHealth, stats.PacketLoss) ELSE quality

streamVideoTick(s) ==
  /\ spc[s] = "loop"
  /\ sequenceNum[s] < MaxChunks
  /\ \E outcome \in SendOutcomes, nano1 \in HealthNanos, nano2 \in LossNanos :
       LET chunk == generateVideoChunk(sess[s].ID, sequenceNum[s], sess[s].Quality,
                                       chunkSize[s])
           stats == updateStreamStats(sess[s].Stats, chunk, nano1, nano2)
           quality == nextQuality(sess[s].AdaptiveBitrate, sess[s].Quality, stats)
       IN  /\ wire' = [wire EXCEPT ![s] = sendChunk(wire[s], chunk, outcome)]
           /\ IF outcome = "ok"
              THEN /\ sess' = [sess EXCEPT ![s].Stats = stats, ![s].Quality = quality]
                   /\ sequenceNum' = [sequenceNum EXCEPT ![s] = nextSequenceNum(sequenceNum[s])]
                   /\ UNCHANGED spc
              ELSE /\ spc' = [spc EXCEPT ![s] = "teardown"]
                   /\ UNCHANGED << sess, sequenceNum >>
  /\ UNCHANGED << ctxCancelled, activeStreams, chunkSize, response,
                  lastStop, prevStop >>

\* case <-ctx.Done(): return ctx.Err()
streamVideoDone(s) ==
  /\ spc[s] = "loop"
  /\ ctxDone(s)
  /\ spc' = [spc EXCEPT ![s] = "teardown"]
  /\ UNCHANGED << ctxCancelled, activeStreams, sess, sequenceNum, chunkSize, response,
                  wire, lastStop, prevStop >>

\* a slip: the entry is left in the map
deleteStreamKept(m, id) == m

\* a slip: the whole index is emptied
deleteStreamAll(m, id) == [x \in DOMAIN m |-> NoStream]

\* delete(h.activeStreams, streamID)
deleteStream(m, id) == [m EXCEPT ![id] = NoStream]

(***************************************************************************)
(* startStream's deferred function, run once streamVideo has returned:     *)
(* delete the stream_id from the index (whoever is registered under it)    *)
(* and cancel the session's context.                                       *)
(***************************************************************************)
startStreamDeferred(s) ==
  /\ spc[s] = "teardown"
  /\ activeStreams' = deleteStream(activeStreams, sess[s].ID)
  /\ sess' = [sess EXCEPT ![s].cancelled = TRUE]
  /\ spc' = [spc EXCEPT ![s] = "closed"]
  /\ UNCHANGED << ctxCancelled, sequenceNum, chunkSize, response, wire,
                  lastStop, prevStop >>

\* a slip: StopStream cancels the session but leaves it in the index
StopStreamNoDelete(id) ==
  /\ IF activeStreams[id] # NoStream
     THEN /\ sess' = [sess EXCEPT ![activeStreams[id]].cancelled = TRUE]
          /\ lastStop' = [lastStop EXCEPT ![id] = "ok"]
     ELSE /\ lastStop' = [lastStop EXCEPT ![id] = "notfound"]
          /\ UNCHANGED sess
  /\ prevStop' = [prevStop EXCEPT ![id] = lastStop[id]]
  /\ UNCHANGED << ctxCancelled, activeStreams, spc, sequenceNum, chunkSize, response, wire >>

(***************************************************************************)
(* StopStream(streamID), under the handler's write lock.                   *)
(***************************************************************************)
StopStream(id) ==
  /\ IF activeStreams[id] # NoStream
     THEN /\ sess' = [sess EXCEPT ![activeStreams[id]].cancelled = TRUE]
          /\ activeStreams' = deleteStream(activeStreams, id)
          /\ lastStop' = [lastStop EXCEPT ![id] = "ok"]
     ELSE /\ lastStop' = [lastStop EXCEPT ![id] = "notfound"]
          /\ UNCHANGED << sess, activeStreams >>
  /\ prevStop' = [prevStop EXCEPT ![id] = lastStop[id]]
  /\ UNCHANGED << ctxCancelled, spc, sequenceNum, chunkSize, response, wire >>

(***************************************************************************)
(* GetActiveStreams, under the handler's read lock: the map it returns, a  *)
(* copy of every registered session's Stats keyed by stream_id (stream is  *)
(* the ActiveStream the copy was taken from).  The call writes nothing.    *)
(***************************************************************************)
GetActiveStreamsResult ==
  [id \in StreamIDs |->
     IF activeStreams[id] # NoStream
     THEN [stream |-> activeStreams[id], stats |-> sess[activeStreams[id]].Stats]
     ELSE NoReport]

GetActiveStreams ==
  /\ \A id \in StreamIDs : GetActiveStreamsResult[id].stream \in Streams \cup {NoStream}
  /\ UNCHANGED streamVars

\* main's cancel() at shutdown
CancelContext ==
  /\ ~ctxCancelled
  /\ ctxCancelled' = TRUE
  /\ UNCHANGED << activeStreams, spc, sess, sequenceNum, chunkSize, response, wire,
                  lastStop, prevStop >>

(***************************************************************************)
(* The adaptation rule on its own: one ActiveStream whose signals come     *)
(* from a feedback source instead of updateStreamStats's simulation, and   *)
(* the loop of streamVideo around it (new signals, then adaptBitrate).     *)
(***************************************************************************)
VARIABLES
  aQuality,      \* activeStream.Quality
  aHealth,       \* activeStream.Stats.BufferHealth
  aLoss,         \* activeStream.Stats.PacketLoss
  aBefore,       \* Quality before the last adaptBitrate call
  aPc,           \* "stats": signals are written next; "adapt": adaptBitrate is called next
  aTicked,       \* adaptBitrate has been called
  midRun,        \* consecutive adaptBitrate calls made with middle-zone signals
  aMidQuality    \* Quality when the current middle-zone run began

adaptVars == << aQuality, aHealth, aLoss, aBefore, aPc, aTicked, midRun, aMidQuality >>

\* signal values around every threshold of the rule, and the extremes
HealthSamples == {0, 2999, 3000, 3001, 5000, 8000, 8001, 10000}

LossSamples == {0, 99, 100, 101, 200, 500, 501, 10000}

Ladder == { videoQualities[i] : i \in 1..Len(videoQualities) }

\* neither the step-down nor the step-up condition holds
MiddleZone(b, l) == ~(b < 3000 \/ l > 500) /\ ~(b > 8000 /\ l < 100)

AdaptIdle ==
  /\ aQuality = videoQualities[1]
  /\ aHealth = 0
  /\ aLoss = 0
  /\ aBefore = videoQualities[1]
  /\ aPc = "stats"
  /\ aTicked = FALSE
  /\ midRun = 0
  /\ aMidQuality = videoQualities[1]

AdaptInit ==
  /\ aQuality \in Ladder
  /\ aHealth = 0
  /\ aLoss = 0
  /\ aBefore = aQuality
  /\ aPc = "stats"
  /\ aTicked = FALSE
  /\ midRun = 0
  /\ aMidQuality = aQuality

FeedSignals ==
  /\ aPc = "stats"
  /\ aHealth' \in HealthSamples
  /\ aLoss' \in LossSamples
  /\ aPc' = "adapt"
  /\ UNCHANGED << aQuality, aBefore, aTicked, midRun, aMidQuality >>

AdaptTick ==
  /\ aPc = "adapt"
  /\ MiddleZone(aHealth, aLoss) => midRun < MaxMidRun
  /\ aBefore' = aQuality
  /\ aQuality' = adaptBitrate(aQuality, aHealth, aLoss)
  /\ aTicked' = TRUE
  /\ midRun' = IF MiddleZone(aHealth, aLoss) THEN midRun + 1 ELSE 0
  /\ aMidQuality' = IF midRun = 0 THEN aQuality ELSE aMidQuality
  /\ aPc' = "stats"
  /\ UNCHANGED << aHealth, aLoss >>

(***************************************************************************)
(* The telemetry handler (package iot): device registry, bounded queues,   *)
(* one goroutine per stream in HandleStream, the device monitor, the       *)
(* consumer of the queues, and callers of GetDevices.  The handler has no  *)
(* lock: a registry access that takes more than one memory operation is    *)
(* modelled in two steps, so that other goroutines run in between.         *)
(***************************************************************************)
\* capacity of sensorDataChan in the model (the code: 1000)
SensorChanCap == 2
\* capacity of commandChan in the model (the code: 100)
CommandChanCap == 1
\* the clock runs from 0 to MaxTime, in units of 30 s
MaxTime == 3
\* sensor readings dropped before no further sensor_data envelope is followed
MaxDrops == 2
\* config.IoT.HeartbeatTimeout, 60 s, in units of 30 s
heartbeatTimeout == 2

\* transport streams routed to the telemetry handler (one goroutine each)
IotStreams == {"i1", "i2"}
\* device ids the registry can hold
DeviceIDs == {"d1", "d2"}
\* device_id values of the envelopes on the observed streams
EnvelopeDevices == {"d1"}
NoDevice == "none"

\* an id the devices map has no entry for
Unregistered == [registered |-> FALSE, LastSeen |-> 0, Online |-> FALSE]

\* no response written so far
NoResponse == [stream |-> "none", status |-> "none"]

VARIABLES
  crashed,         \* the runtime ended the process (fatal error: concurrent map access)
  now,             \* time.Now()
  devices,         \* Handler.devices
  sensorDataChan,  \* Handler.sensorDataChan, by the device_id of each reading
  commandChan,     \* Handler.commandChan, by the device_id of each command
  ipc,             \* where the goroutine serving each telemetry stream stands
  idev,            \* the device_id of the envelope that goroutine is handling
  lastResponse,    \* the response written last, on any stream: its stream and status
  lastQueued,      \* the command that response acknowledges went onto commandChan
  mpc,             \* where StartDeviceMonitor stands
  mleft,           \* devices the running sweep has still to visit
  mcur,            \* the device the sweep found stale and is about to mark
  gpc,             \* where a caller of GetDevices stands
  droppedCount,    \* the drop counter the handler maintains
  sensorDropped    \* readings received but not queued, as the design counts them

iotVars ==
  << crashed, now, devices, sensorDataChan, commandChan, ipc, idev, lastResponse, lastQueued,
     mpc, mleft, mcur, gpc, droppedCount, sensorDropped >>

IoTInit ==
  /\ crashed = FALSE
  /\ now = 0
  /\ devices = [d \in DeviceIDs |-> Unregistered]
  /\ sensorDataChan = << >>
  /\ commandChan = << >>
  /\ ipc = [t \in IotStreams |-> "read"]
  /\ idev = [t \in IotStreams |-> NoDevice]
  /\ lastResponse = NoResponse
  /\ lastQueued = FALSE
  /\ mpc = "wait"
  /\ mleft = {}
  /\ mcur = NoDevice
  /\ gpc = "idle"
  /\ droppedCount = 0
  /\ sensorDropped = 0

\* a slip: a full queue loses its oldest element when a send finds it full
trySendEvict(q, x, cap) ==
  IF Len(q) < cap THEN [q |-> Append(q, x), ok |-> TRUE]
  ELSE [q |-> Tail(q), ok |-> FALSE]

\* select { case ch <- x: ... default: ... } on a channel of capacity cap
trySend(q, x, cap) ==
  IF Len(q) < cap THEN [q |-> Append(q, x), ok |-> TRUE]
  ELSE [q |-> q, ok |-> FALSE]

\* goroutines inside a multi-step access of the registry, and how they access it
Tasks == IotStreams \cup {"monitor", "caller"}

Accessing(task) ==
  IF task \in IotStreams
  THEN (IF ipc[task] \in {"sdOnline", "hbInsert", "hbOnline"} THEN "write" ELSE "none")
  ELSE IF task = "monitor"
       THEN (IF mpc = "mark" THEN "write" ELSE IF mpc = "sweep" THEN "read" ELSE "none")
       ELSE (IF gpc = "iter" THEN "read" ELSE "none")

\* sensor_data envelopes whose non-blocking send is still ahead
inFlightSensor == Cardinality({t \in IotStreams : ipc[t] = "sdOnline"})

\* a slip: a failure on one stream ends the loops of all streams
HandleStreamReturnAll(t) ==
  /\ ~crashed
  /\ ipc[t] = "read"
  /\ ipc' = [u \in IotStreams |-> "closed"]
  /\ UNCHANGED << crashed, now, devices, sensorDataChan, commandChan, idev, lastResponse, lastQueued, mpc, mleft, mcur, gpc, droppedCount, sensorDropped >>

\* HandleStream returns: the context is done, Decode fails (malformed envelope,
\* stream closed by the peer), the envelope's type is none of sensor_data,
\* command and heartbeat, or its data does not unmarshal
HandleStreamReturn(t) ==
  /\ ~crashed
  /\ ipc[t] = "read"
  /\ ipc' = [ipc EXCEPT ![t] = "closed"]
  /\ UNCHANGED << crashed, now, devices, sensorDataChan, commandChan, idev, lastResponse, lastQueued, mpc, mleft, mcur, gpc, droppedCount, sensorDropped >>

\* the non-blocking send of handleSensorData; the default case logs a warning
\* and counts nothing
sendSensorData(d) ==
  LET r == trySend(sensorDataChan, d, SensorChanCap)
  IN  /\ sensorDataChan' = r.q
      /\ sensorDropped' = IF r.ok THEN sensorDropped ELSE sensorDropped + 1
      /\ droppedCount' = droppedCount

\* handleSensorData for a decoded sensor_data envelope: look the device up;
\* a registered device gets LastSeen (Online follows in the next step), for
\* an unregistered one the reading goes straight to the queue
handleSensorData(t) ==
  /\ ~crashed
  /\ ipc[t] = "read"
  /\ sensorDropped + inFlightSensor < MaxDrops
  /\ \E d \in EnvelopeDevices :
       IF devices[d].registered
       THEN /\ devices' = [devices EXCEPT ![d].LastSeen = now]
            /\ ipc' = [ipc EXCEPT ![t] = "sdOnline"]
            /\ idev' = [idev EXCEPT ![t] = d]
            /\ UNCHANGED << sensorDataChan, sensorDropped, droppedCount >>
       ELSE /\ sendSensorData(d)
            /\ UNCHANGED << devices, ipc, idev >>
  /\ UNCHANGED << crashed, now, commandChan, lastResponse, lastQueued, mpc, mleft, mcur, gpc >>

\* handleSensorData, rest: device.Online = true, then the non-blocking send
handleSensorDataSend(t) ==
  /\ ~crashed
  /\ ipc[t] = "sdOnline"
  /\ devices' = [devices EXCEPT ![idev[t]].Online = TRUE]
  /\ sendSensorData(idev[t])
  /\ ipc' = [ipc EXCEPT ![t] = "read"]
  /\ idev' = [idev EXCEPT ![t] = NoDevice]
  /\ UNCHANGED << crashed, now, commandChan, lastResponse, lastQueued, mpc, mleft, mcur, gpc >>

\* handleCommand for a decoded command envelope: non-blocking send, then the
\* response with status "received" whatever the send did
handleCommand(t) ==
  /\ ~crashed
  /\ ipc[t] = "read"
  /\ \E d \in EnvelopeDevices, encodeOk \in BOOLEAN :
       LET r == trySend(commandChan, d, CommandChanCap)
       IN  /\ commandChan' = r.q
           /\ IF encodeOk
              THEN /\ lastResponse' = [stream |-> t, status |-> "received"]
                   /\ lastQueued' = r.ok
                   /\ UNCHANGED ipc
              ELSE /\ ipc' = [ipc EXCEPT ![t] = "closed"]
                   /\ UNCHANGED << lastResponse, lastQueued >>
  /\ UNCHANGED << crashed, now, devices, sensorDataChan, idev, mpc, mleft, mcur, gpc,
                  droppedCount, sensorDropped >>

\* encoder.Encode of the heartbeat response
respondAlive(t, encodeOk) ==
  /\ IF encodeOk
     THEN /\ lastResponse' = [stream |-> t, status |-> "alive"]
          /\ lastQueued' = FALSE
     ELSE UNCHANGED << lastResponse, lastQueued >>
  /\ ipc' = [ipc EXCEPT ![t] = IF encodeOk THEN "read" ELSE "closed"]
  /\ idev' = [idev EXCEPT ![t] = NoDevice]

\* handleHeartbeat for a decoded heartbeat envelope: look the device up; a
\* registered device gets LastSeen, an unknown one is inserted in the next step
handleHeartbeat(t) ==
  /\ ~crashed
  /\ ipc[t] = "read"
  /\ \E d \in EnvelopeDevices :
       /\ idev' = [idev EXCEPT ![t] = d]
       /\ IF devices[d].registered
          THEN /\ devices' = [devices EXCEPT ![d].LastSeen = now]
               /\ ipc' = [ipc EXCEPT ![t] = "hbOnline"]
          ELSE /\ ipc' = [ipc EXCEPT ![t] = "hbInsert"]
               /\ UNCHANGED devices
  /\ UNCHANGED << crashed, now, sensorDataChan, commandChan, lastResponse, lastQueued, mpc,
                  mleft, mcur, gpc, droppedCount, sensorDropped >>

\* a slip: the record of a new device is created offline
handleHeartbeatInsertOffline(t) ==
  /\ ~crashed
  /\ ipc[t] = "hbInsert"
  /\ devices' = [devices EXCEPT ![idev[t]] =
                   [registered |-> TRUE, LastSeen |-> now, Online |-> FALSE]]
  /\ \E encodeOk \in BOOLEAN : respondAlive(t, encodeOk)
  /\ UNCHANGED << crashed, now, sensorDataChan, commandChan, mpc, mleft, mcur,
                  gpc, droppedCount, sensorDropped >>

\* handleHeartbeat, unknown device: h.devices[id] = &Device{...}, then the response
handleHeartbeatInsert(t) ==
  /\ ~crashed
  /\ ipc[t] = "hbInsert"
  /\ devices' = [devices EXCEPT ![idev[t]] =
                   [registered |-> TRUE, LastSeen |-> now, Online |-> TRUE]]
  /\ \E encodeOk \in BOOLEAN : respondAlive(t, encodeOk)
  /\ UNCHANGED << crashed, now, sensorDataChan, commandChan, mpc, mleft, mcur,
                  gpc, droppedCount, sensorDropped >>

\* handleHeartbeat, known device: device.Online = true, then the response
handleHeartbeatOnline(t) ==
  /\ ~crashed
  /\ ipc[t] = "hbOnline"
  /\ devices' = [devices EXCEPT ![idev[t]].Online = TRUE]
  /\ \E encodeOk \in BOOLEAN : respondAlive(t, encodeOk)
  /\ UNCHANGED << crashed, now, sensorDataChan, commandChan, mpc, mleft, mcur,
                  gpc, droppedCount, sensorDropped >>

\* the map insert of handleHeartbeat while another goroutine is inside the
\* map: the runtime may end the process with "concurrent map ..." instead
concurrentMapFatal(t) ==
  /\ ~crashed
  /\ ipc[t] = "hbInsert"
  /\ \E other \in Tasks \ {t} : Accessing(other) # "none"
  /\ crashed' = TRUE
  /\ UNCHANGED << now, devices, sensorDataChan, commandChan, ipc, idev, lastResponse, lastQueued,
                  mpc, mleft, mcur, gpc, droppedCount, sensorDropped >>


\* the sweep's loop control: back to the ticker once every device is visited
sweepGoesOn(left) == IF left = {} THEN "wait" ELSE "sweep"

\* StartDeviceMonitor, the ticker fires: now := time.Now() and the range over
\* h.devices begins
sweepBegin ==
  /\ ~crashed
  /\ mpc = "wait"
  /\ mleft' = {d \in DeviceIDs : devices[d].registered}
  /\ mpc' = sweepGoesOn(mleft')
  /\ UNCHANGED << crashed, now, devices, sensorDataChan, commandChan, ipc, idev, lastResponse, lastQueued, mcur, gpc, droppedCount, sensorDropped >>

\* the staleness test of the sweep
isStale(device, at, timeout) == at - device.LastSeen > timeout

\* a slip: the sweep flips the flag instead of clearing it
markOfflineToggle(device) == [device EXCEPT !.Online = ~device.Online]

\* device.Online = false
markOffline(device) == [device EXCEPT !.Online = FALSE]

\* one turn of the range: the staleness test on a device
sweepVisit ==
  /\ ~crashed
  /\ mpc = "sweep"
  /\ \E d \in mleft :
       IF isStale(devices[d], now, heartbeatTimeout)
       THEN /\ mcur' = d
            /\ mpc' = "mark"
            /\ UNCHANGED mleft
       ELSE /\ mleft' = mleft \ {d}
            /\ mpc' = sweepGoesOn(mleft')
            /\ UNCHANGED mcur
  /\ UNCHANGED << crashed, now, devices, sensorDataChan, commandChan, ipc, idev, lastResponse, lastQueued, gpc, droppedCount, sensorDropped >>

\* device.Online = false for the device found stale
sweepMark ==
  /\ ~crashed
  /\ mpc = "mark"
  /\ devices' = [devices EXCEPT ![mcur] = markOffline(devices[mcur])]
  /\ mleft' = mleft \ {mcur}
  /\ mpc' = sweepGoesOn(mleft')
  /\ mcur' = NoDevice
  /\ UNCHANGED << crashed, now, sensorDataChan, commandChan, ipc, idev, lastResponse, lastQueued, gpc, droppedCount, sensorDropped >>

\* StartDeviceMonitor: case <-ctx.Done(): return
monitorDone ==
  /\ ~crashed
  /\ mpc = "wait"
  /\ ctxCancelled
  /\ mpc' = "done"
  /\ UNCHANGED << crashed, now, devices, sensorDataChan, commandChan, ipc, idev, lastResponse, lastQueued, mleft, mcur, gpc, droppedCount, sensorDropped >>

\* time passes; a sweep is over long before the clock's unit is
ClockTick ==
  /\ ~crashed
  /\ now < MaxTime
  /\ mpc \in {"wait", "done"}
  /\ now' = now + 1
  /\ UNCHANGED << crashed, devices, sensorDataChan, commandChan, ipc, idev, lastResponse, lastQueued, mpc, mleft, mcur, gpc, droppedCount, sensorDropped >>

\* processIoTData: case sensorData := <-sensorDataChan
processSensorData ==
  /\ ~crashed
  /\ Len(sensorDataChan) > 0
  /\ sensorDataChan' = Tail(sensorDataChan)
  /\ UNCHANGED << crashed, now, devices, commandChan, ipc, idev, lastResponse, lastQueued,
                  mpc, mleft, mcur, gpc, droppedCount, sensorDropped >>

\* processIoTData: case command := <-commandChan
processCommand ==
  /\ ~crashed
  /\ Len(commandChan) > 0
  /\ commandChan' = Tail(commandChan)
  /\ UNCHANGED << crashed, now, devices, sensorDataChan, ipc, idev, lastResponse, lastQueued,
                  mpc, mleft, mcur, gpc, droppedCount, sensorDropped >>

\* GetDevices: the range over h.devices begins
GetDevicesBegin ==
  /\ ~crashed
  /\ gpc = "idle"
  /\ gpc' = "iter"
  /\ UNCHANGED << crashed, now, devices, sensorDataChan, commandChan, ipc, idev, lastResponse, lastQueued, mpc, mleft, mcur, droppedCount, sensorDropped >>

\* the copy GetDevices returns: the records as they stand when it copies them
GetDevicesResult == [d \in {x \in DeviceIDs : devices[x].registered} |-> devices[d]]

\* GetDevices: the copies are made and returned
GetDevicesEnd ==
  /\ ~crashed
  /\ gpc = "iter"
  /\ DOMAIN GetDevicesResult \subseteq DeviceIDs
  /\ gpc' = "idle"
  /\ UNCHANGED << crashed, now, devices, sensorDataChan, commandChan, ipc, idev, lastResponse, lastQueued, mpc, mleft, mcur, droppedCount, sensorDropped >>

(***************************************************************************)
(* The device monitor alone: its sweeps over an arbitrary registry, with   *)
(* no envelope handled meanwhile.                                          *)
(***************************************************************************)
\* sweeps run in a row at one time
MaxSweeps == 2

VARIABLES
  swBefore,  \* the registry when the last sweep began
  swAt,      \* the time that sweep read
  swRuns     \* sweeps completed since the clock last moved

sweepVars == << swBefore, swAt, swRuns >>

\* no sweep under observation
SweepIdle ==
  /\ swBefore = [d \in DeviceIDs |-> Unregistered]
  /\ swAt = 0
  /\ swRuns = 0

\* the records a device can have at time at
DeviceRecords(at) ==
  {Unregistered} \cup
    {[registered |-> TRUE, LastSeen |-> l, Online |-> o] : l \in 0..at, o \in BOOLEAN}

\* the monitor waiting for its ticker, the registry as earlier envelopes left it
SweepInit ==
  /\ crashed = FALSE
  /\ now \in 0..MaxTime
  /\ devices \in [DeviceIDs -> DeviceRecords(now)]
  /\ sensorDataChan = << >>
  /\ commandChan = << >>
  /\ ipc = [t \in IotStreams |-> "read"]
  /\ idev = [t \in IotStreams |-> NoDevice]
  /\ lastResponse = NoResponse
  /\ lastQueued = FALSE
  /\ mpc = "wait"
  /\ mleft = {}
  /\ mcur = NoDevice
  /\ gpc = "idle"
  /\ droppedCount = 0
  /\ sensorDropped = 0
  /\ swBefore = devices
  /\ swAt = now
  /\ swRuns = 0

\* a sweep that returns to the ticker is counted
countSweep == swRuns' = IF mpc' = "wait" THEN swRuns + 1 ELSE swRuns

SweepRunBegin ==
  /\ swRuns < MaxSweeps
  /\ sweepBegin
  /\ swBefore' = devices
  /\ swAt' = now
  /\ countSweep

SweepRunVisit == sweepVisit /\ countSweep /\ UNCHANGED << swBefore, swAt >>

SweepRunMark == sweepMark /\ countSweep /\ UNCHANGED << swBefore, swAt >>

SweepLater == ClockTick /\ swRuns' = 0 /\ UNCHANGED << swBefore, swAt >>

(***************************************************************************)
(* One session's loop over a long run of ticks, every write succeeding.    *)
(***************************************************************************)
\* ticks of the long run
MaxSeqNum == 61

VARIABLES
  kSeq,      \* streamVideo's sequenceNum
  kQuality,  \* activeStream.Quality
  kSize,     \* streamVideo's chunkSize
  kChunk     \* the chunk generated last

longVars == << kSeq, kQuality, kSize, kChunk >>

NoChunk == generateVideoChunk(NoStream, 0, ZeroQuality, 0)

\* no long run under observation
LongIdle ==
  /\ kSeq = 0
  /\ kQuality = ZeroQuality
  /\ kSize = 0
  /\ kChunk = NoChunk

\* streamVideo entered for a session of any tier
LongInit ==
  /\ kSeq = 0
  /\ kQuality \in Ladder
  /\ kSize = calculateChunkSize(kQuality)
  /\ kChunk = NoChunk

\* case <-ticker.C with a successful send: generate, send, sequenceNum++
LongTick ==
  /\ kQuality \in Ladder
  /\ kSeq < MaxSeqNum
  /\ kChunk' = generateVideoChunk("a", kSeq, kQuality, kSize)
  /\ kSeq' = nextSequenceNum(kSeq)
  /\ UNCHANGED << kQuality, kSize >>

(***************************************************************************)
(* The handshake's quality resolution under arbitrary requests.            *)
(***************************************************************************)
\* the quality field of the requests: each part from the ladder or from
\* outside it, combined freely
RequestNames == {"360p", "480p", "720p", "1080p", "4k", ""}
RequestDims == {<<640, 360>>, <<854, 480>>, <<1280, 720>>, <<1920, 1080>>, <<0, 0>>}
RequestBitrates == {0, 500, 700, 750, 1500, 3000, 9000}

ValidateRequests ==
  {[Name |-> n, Width |-> d[1], Height |-> d[2], Bitrate |-> b, Framerate |-> 30] :
     n \in RequestNames, d \in RequestDims, b \in RequestBitrates}

VARIABLES
  vPc,         \* "idle", "call" (a request decoded) or "done" (validateQuality returned)
  vRequested,  \* request.Quality
  vResult      \* what validateQuality returned for it

validateVars == << vPc, vRequested, vResult >>

NoValidation == [quality |-> ZeroQuality, ok |-> FALSE]

\* no handshake under observation
ValidateIdle ==
  /\ vPc = "idle"
  /\ vRequested = ZeroQuality
  /\ vResult = NoValidation

\* a request has been decoded
ValidateInit ==
  /\ vPc = "call"
  /\ vRequested \in ValidateRequests
  /\ vResult = NoValidation

\* HandleStream: quality, err := h.validateQuality(request.Quality)
ValidateCall ==
  /\ vPc = "call"
  /\ vResult' = validateQuality(vRequested)
  /\ vPc' = "done"
  /\ UNCHANGED vRequested

\* the next stream's request is decoded
ValidateDecode ==
  /\ vPc = "done"
  /\ vRequested' \in ValidateRequests
  /\ vResult' = NoValidation
  /\ vPc' = "call"

(***************************************************************************)
(* The envelope's type: HandleStream decodes a Message and processMessage  *)
(* switches on its Type.                                                   *)
(***************************************************************************)
\* MessageSensorData, MessageCommand, MessageHeartbeat
MessageSensorData == "sensor_data"
MessageCommand == "command"
MessageHeartbeat == "heartbeat"
\* MessageResponse, the type of the server's own answers
MessageResponse == "response"

\* the Type of the envelopes peers send: the four of the protocol, one that
\* is none of them, and the empty one
MessageTypes ==
  {MessageSensorData, MessageCommand, MessageHeartbeat, MessageResponse, "status", ""}

VARIABLES
  msgType  \* per stream: the Type of the envelope decoded last ("none": no envelope yet)

envelopeVars == << msgType >>

EnvelopeInit == msgType = [t \in IotStreams |-> "none"]

\* a slip: an envelope of a type without a case is handled as a heartbeat
processMessageLax(type) ==
  IF type = MessageSensorData THEN "handleSensorData"
  ELSE IF type = MessageCommand THEN "handleCommand"
  ELSE "handleHeartbeat"

\* processMessage: switch msg.Type, default: return fmt.Errorf(...)
processMessage(type) ==
  IF type = MessageSensorData THEN "handleSensorData"
  ELSE IF type = MessageCommand THEN "handleCommand"
  ELSE IF type = MessageHeartbeat THEN "handleHeartbeat"
  ELSE "error"

\* HandleStream, one turn through the default case with an envelope that
\* decodes: processMessage calls the handler of its type, or returns the
\* error with which HandleStream returns
HandleStreamMessage(t) ==
  \E type \in MessageTypes :
    /\ msgType' = [msgType EXCEPT ![t] = type]
    /\ LET case == processMessage(type)
       IN  IF case = "handleSensorData" THEN handleSensorData(t)
           ELSE IF case = "handleCommand" THEN handleCommand(t)
           ELSE IF case = "handleHeartbeat" THEN handleHeartbeat(t)
           ELSE HandleStreamReturn(t)

(***************************************************************************)
(* The monitor on its ticker: time.NewTicker(timeout / 2) fires once per   *)
(* unit of the clock (timeout is two units), and the sweep it starts is    *)
(* over before the clock moves again, as is the handling of an envelope;   *)
(* envelopes of the observed device arrive at any time.                    *)
(***************************************************************************)
VARIABLES
  lastEnvelope,  \* when the last envelope of the observed device was taken up (-1: none)
  tickPending    \* the ticker has fired and the sweep has not begun

timedVars == << lastEnvelope, tickPending >>

TimedInit ==
  /\ lastEnvelope = 0 - 1
  /\ tickPending = FALSE

\* an envelope of the observed device is taken up now
envelopeAt == lastEnvelope' = now /\ UNCHANGED tickPending

\* timeout / 2 has passed since the last tick: ticker.C fires
tickerFires ==
  /\ ~tickPending
  /\ \A t \in IotStreams : ipc[t] \in {"read", "closed"}
  /\ ClockTick
  /\ tickPending' = TRUE
  /\ UNCHANGED lastEnvelope

\* case <-ticker.C: the sweep begins
tickerSweepBegin ==
  /\ tickPending
  /\ sweepBegin
  /\ tickPending' = FALSE
  /\ UNCHANGED lastEnvelope

(***************************************************************************)
(* The transport server: one connection's accept loop and the goroutine    *)
(* it starts for every stream.                                             *)
(***************************************************************************)
\* streams the peer opens on the connection
MaxStreams == 3
ConnStreams == 1..MaxStreams

\* the four bytes "IOT\x00" and "STRM"
ProtocolIoT == "IOT"
ProtocolStreaming == "STRM"

\* what stream.Read(protocolBytes) yields: a registered identifier, four
\* bytes no handler is registered for, or an error or fewer than four bytes
HeaderReads == {ProtocolIoT, ProtocolStreaming, "XXXX", "short"}

NoHandler == "none"

\* Server.handlers after main's two RegisterHandler calls
handlers ==
  [p \in {ProtocolIoT, ProtocolStreaming} |->
     IF p = ProtocolIoT THEN "iotHandler" ELSE "streamingHandler"]

\* a slip: an identifier without handler falls back to the telemetry handler
lookupHandlerFallback(protocol) ==
  IF protocol \in DOMAIN handlers
  THEN [handler |-> handlers[protocol], exists |-> TRUE]
  ELSE [handler |-> handlers[ProtocolIoT], exists |-> TRUE]

\* handler, exists := s.handlers[protocol]
lookupHandler(protocol) ==
  IF protocol \in DOMAIN handlers
  THEN [handler |-> handlers[protocol], exists |-> TRUE]
  ELSE [handler |-> NoHandler, exists |-> FALSE]

VARIABLES
  connPc,    \* handleConnection: "accept" (in its loop) or "closed" (returned)
  qstream    \* per stream of the connection: where it stands, the identifier
             \* read from it and the handler invoked for it

dispatchVars == << connPc, qstream >>

\* a stream the peer has not opened
NoQStream == [pc |-> "none", protocol |-> "none", handler |-> NoHandler]

DispatchInit ==
  /\ connPc = "accept"
  /\ qstream = [i \in ConnStreams |-> NoQStream]

\* the peer opens its next stream
peerOpenStream(i) ==
  /\ connPc = "accept"
  /\ qstream[i].pc = "none"
  /\ \A j \in ConnStreams : j < i => qstream[j].pc # "none"
  /\ qstream' = [qstream EXCEPT ![i].pc = "opened"]
  /\ UNCHANGED connPc

\* a slip: handleStream called without go, the loop waits for it to return
acceptReadySerial ==
  /\ connPc = "accept"
  /\ \A j \in ConnStreams : qstream[j].pc \notin {"header", "handling"}

\* handleConnection is in its loop, at conn.AcceptStream
acceptReady == connPc = "accept"

\* conn.AcceptStream returns the oldest stream not yet accepted and
\* go s.handleStream(ctx, stream) starts its goroutine
acceptStream(i) ==
  /\ acceptReady
  /\ qstream[i].pc = "opened"
  /\ \A j \in ConnStreams : j < i => qstream[j].pc # "opened"
  /\ qstream' = [qstream EXCEPT ![i].pc = "header"]
  /\ UNCHANGED connPc

\* handleConnection returns: ctx.Done(), or AcceptStream fails (the context
\* is cancelled, the peer closed the connection, the idle timeout passed)
handleConnectionReturn ==
  /\ acceptReady
  /\ connPc' = "closed"
  /\ UNCHANGED qstream

\* handleStream up to the handler's call: read the identifier, look the
\* handler up; a failed read and an unknown identifier return, and the
\* deferred stream.Close() runs
handleStreamOn(i, r) ==
  IF r = "short"
  THEN qstream' = [qstream EXCEPT ![i] =
                     [pc |-> "closed", protocol |-> r, handler |-> NoHandler]]
  ELSE LET h == lookupHandler(r)
       IN  qstream' = [qstream EXCEPT ![i] =
                         [pc |-> IF h.exists THEN "handling" ELSE "closed",
                          protocol |-> r, handler |-> h.handler]]

handleStream(i) ==
  /\ qstream[i].pc = "header"
  /\ \E r \in HeaderReads : handleStreamOn(i, r)
  /\ UNCHANGED connPc

\* handler.HandleStream returns, with or without error; the deferred
\* stream.Close() runs
handleStreamReturn(i) ==
  /\ qstream[i].pc = "handling"
  /\ qstream' = [qstream EXCEPT ![i].pc = "closed"]
  /\ UNCHANGED connPc

(***************************************************************************)
(* The read of the identifier, byte by byte: the peer puts four bytes      *)
(* first on its stream, the transport hands them to stream.Read in one     *)
(* piece or in several, and handleStream calls Read once.                  *)
(***************************************************************************)
\* length of the identifier
HeaderLen == 4

\* the four bytes a peer puts first on a stream
Identifiers == {ProtocolIoT, ProtocolStreaming, "XXXX"}

VARIABLES
  firstRead  \* per stream: the identifier its peer sent, and the n and err
             \* that the one stream.Read(protocolBytes) returned

headerVars == << firstRead >>

\* no Read so far
NoRead == [sent |-> "none", n |-> 0, err |-> FALSE]

HeaderInit == firstRead = [i \in ConnStreams |-> NoRead]

\* n, err := stream.Read(protocolBytes); if err != nil || n != 4 { return };
\* protocol := string(protocolBytes)
readHeader(sent, n, err) == IF err \/ n # HeaderLen THEN "short" ELSE sent

\* handleStream with its Read spelled out: Read returns as soon as it has at
\* least one byte, with the n <= 4 bytes the transport has delivered so far,
\* or fails
handleStreamRead(i) ==
  /\ qstream[i].pc = "header"
  /\ \E sent \in Identifiers, n \in 0..HeaderLen, err \in BOOLEAN :
       /\ n = 0 => err
       /\ firstRead' = [firstRead EXCEPT ![i] = [sent |-> sent, n |-> n, err |-> err]]
       /\ handleStreamOn(i, readHeader(sent, n, err))
  /\ UNCHANGED connPc

(***************************************************************************)
(* The goroutines main starts beside the handlers: processIoTData,         *)
(* monitorStreaming and Server.Start, each a loop around a select that     *)
(* has a case for the shared context.                                      *)
(***************************************************************************)
VARIABLES
  procPc,    \* processIoTData: "select" (in its loop) or "done" (returned)
  statPc,    \* monitorStreaming: "select" (in its loop) or "done" (returned)
  streams,   \* monitorStreaming's local streams: the map GetActiveStreams returned last
  listenPc,  \* Server.Start: "select", "accept" (inside listener.Accept) or "done"
  part       \* the part of the server whose loops a shutdown run follows

mainVars == << procPc, statPc, streams, listenPc, part >>

\* the loops of one part share no state with the loops of another, the
\* context apart: a shutdown run follows the loops of one part
Parts == {"streaming", "telemetry", "main"}

\* the goroutines as main starts them
MainLoops ==
  /\ procPc = "select"
  /\ statPc = "select"
  /\ streams = [id \in StreamIDs |-> NoReport]
  /\ listenPc = "select"

\* no shutdown run under observation
MainInit == MainLoops /\ part = "none"

\* a shutdown run, of any one part
ShutdownInit == MainLoops /\ part \in Parts

\* processIoTData: case command := <-commandChan
processIoTDataCommand ==
  /\ procPc = "select"
  /\ processCommand
  /\ UNCHANGED mainVars

\* processIoTData: case <-ctx.Done(): return
processIoTDataDone ==
  /\ procPc = "select"
  /\ ctxCancelled
  /\ procPc' = "done"
  /\ UNCHANGED << statPc, streams, listenPc, part >>

\* a slip: the call hands out the sessions' own statistics and resets them
monitorStreamingTickReset ==
  /\ statPc = "select"
  /\ streams' = GetActiveStreamsResult
  /\ sess' = [s \in Streams |-> [sess[s] EXCEPT !.Stats = ZeroStats]]
  /\ UNCHANGED << ctxCancelled, activeStreams, spc, sequenceNum, chunkSize, response,
                  wire, lastStop, prevStop >>
  /\ UNCHANGED << procPc, statPc, listenPc, part >>

\* monitorStreaming: case <-ticker.C: streams := handler.GetActiveStreams(),
\* then the log lines
monitorStreamingTick ==
  /\ statPc = "select"
  /\ GetActiveStreams
  /\ streams' = GetActiveStreamsResult
  /\ UNCHANGED << procPc, statPc, listenPc, part >>

\* monitorStreaming: case <-ctx.Done(): return
monitorStreamingDone ==
  /\ statPc = "select"
  /\ ctxCancelled
  /\ statPc' = "done"
  /\ UNCHANGED << procPc, streams, listenPc, part >>

\* the holder of the returned map writes to it: delete(streams, id)
modifyStreams ==
  /\ \E id \in StreamIDs :
       /\ streams[id] # NoReport
       /\ streams' = [streams EXCEPT ![id] = NoReport]
  /\ UNCHANGED << procPc, statPc, listenPc, part >>

\* Server.Start at its select: ctx.Done() returns, default goes into
\* s.listener.Accept(ctx)
StartSelect ==
  /\ listenPc = "select"
  /\ listenPc' = IF ctxCancelled THEN "done" ELSE "accept"
  /\ UNCHANGED << procPc, statPc, streams, part >>

\* listener.Accept(ctx) returns: a connection (go s.handleConnection; its
\* goroutine is the one of the transport server above) or an error (the
\* context is cancelled, the listener closed); either way back to the select
StartAcceptReturns ==
  /\ listenPc = "accept"
  /\ listenPc' = "select"
  /\ UNCHANGED << procPc, statPc, streams, part >>

(***************************************************************************)
(* The device Manager (package iot, manager.go): a registry and a bounded  *)
(* list of readings under one RWMutex, every method one critical section;  *)
(* and the registry of the stream-typed telemetry handler with its         *)
(* GetDeviceStatus.  time.Now() is the one value "now": a caller's record  *)
(* carries "zero" until a method stamps it.                                *)
(***************************************************************************)
\* Manager.dataLimit as NewManager receives it (the test: 100)
dataLimit == 2
\* AddSensorData calls followed
MaxAdds == 3

\* ids looked up and commanded; the last is an id no caller registers
LookupIDs == DeviceIDs \cup {"d3"}

\* GetRecentReadings's limit argument
Limits == (0 - 1)..(dataLimit + 1)

\* the nil *Device
NilDevice ==
  [ID |-> "none", Name |-> "", Type |-> "", Location |-> "", Online |-> FALSE,
   LastSeen |-> "zero"]

\* the devices callers hand to RegisterDevice
RegisterInputs ==
  {[ID |-> id, Name |-> p[1], Type |-> p[2], Location |-> p[3], Online |-> FALSE,
    LastSeen |-> "zero"] :
     id \in DeviceIDs,
     p \in {<< "Test Sensor", "temperature", "test-room" >>,
            << "Hall Sensor", "humidity", "hall" >>}}

\* the readings callers hand to AddSensorData
SensorInputs ==
  {[ID |-> id, Type |-> "temperature", Timestamp |-> "zero"] : id \in LookupIDs}

\* the zero Device of the stream-typed handler, returned with found = false
ZeroDevice ==
  [ID |-> "", Type |-> "", Location |-> "", Status |-> "", LastSeen |-> "zero"]

\* the registrations the stream-typed handler decodes
RegistrationInputs ==
  {[ID |-> id, Type |-> "temperature", Location |-> "test-room", Status |-> "",
    LastSeen |-> "zero"] : id \in DeviceIDs}

VARIABLES
  mDevices,   \* Manager.devices
  readings,   \* Manager.readings
  added,      \* every reading handed to AddSensorData so far, as stored, in call order
  hDevices,   \* Handler.devices of the stream-typed handler
  registeredEver, \* the ids registered so far: m with the Manager, h with the handler
  mLast       \* the call made last: its method and arguments

managerVars == << mDevices, readings, added, hDevices, registeredEver, mLast >>

NoCall == [op |-> "none", id |-> "none", device |-> NilDevice, limit |-> 0]

\* NewManager and NewHandler
ManagerInit ==
  /\ mDevices = [id \in DeviceIDs |-> NilDevice]
  /\ readings = << >>
  /\ added = << >>
  /\ hDevices = [id \in DeviceIDs |-> ZeroDevice]
  /\ registeredEver = [m |-> {}, h |-> {}]
  /\ mLast = NoCall

\* a slip: registration leaves the caller's Online flag as it came
stampRegisteredAsIs(device) == [device EXCEPT !.LastSeen = "now"]

\* device.Online = true; device.LastSeen = time.Now()
stampRegistered(device) == [device EXCEPT !.Online = TRUE, !.LastSeen = "now"]

\* Manager.RegisterDevice
RegisterDevice(device) ==
  /\ mDevices' = [mDevices EXCEPT ![device.ID] = stampRegistered(device)]
  /\ registeredEver' = [registeredEver EXCEPT !.m = @ \cup {device.ID}]
  /\ mLast' = [NoCall EXCEPT !.op = "RegisterDevice", !.id = device.ID, !.device = device]
  /\ UNCHANGED << readings, added, hDevices >>

\* a slip: the oldest readings are kept
retainOldest(r, limit) == IF Len(r) > limit THEN SubSeq(r, 1, limit) ELSE r

\* if len(m.readings) > m.dataLimit { m.readings = m.readings[len-dataLimit:] }
retain(r, limit) == IF Len(r) > limit THEN SubSeq(r, Len(r) - limit + 1, Len(r)) ELSE r

\* Manager.AddSensorData
AddSensorData(data) ==
  /\ Len(added) < MaxAdds
  /\ LET stored == [data EXCEPT !.Timestamp = "now"]
     IN  /\ readings' = retain(Append(readings, stored), dataLimit)
         /\ added' = Append(added, stored)
  /\ IF data.ID \in DOMAIN mDevices /\ mDevices[data.ID] # NilDevice
     THEN mDevices' = [mDevices EXCEPT ![data.ID].LastSeen = "now", ![data.ID].Online = TRUE]
     ELSE UNCHANGED mDevices
  /\ mLast' = [NoCall EXCEPT !.op = "AddSensorData", !.id = data.ID]
  /\ UNCHANGED << hDevices, registeredEver >>

\* device, exists := m.devices[id]
GetDeviceResult(id) ==
  IF id \in DOMAIN mDevices /\ mDevices[id] # NilDevice
  THEN [device |-> mDevices[id], exists |-> TRUE]
  ELSE [device |-> NilDevice, exists |-> FALSE]

\* a slip: a lookup that misses leaves a default record behind
GetDeviceDefaulting(id) ==
  /\ mDevices' = [d \in DOMAIN mDevices |->
                    IF d = id /\ mDevices[d] = NilDevice
                    THEN [NilDevice EXCEPT !.ID = id]
                    ELSE mDevices[d]]
  /\ mLast' = [NoCall EXCEPT !.op = "GetDevice", !.id = id]
  /\ UNCHANGED << readings, added, hDevices, registeredEver >>

\* Manager.GetDevice
GetDevice(id) ==
  /\ GetDeviceResult(id).exists \in BOOLEAN
  /\ mLast' = [NoCall EXCEPT !.op = "GetDevice", !.id = id]
  /\ UNCHANGED << mDevices, readings, added, hDevices, registeredEver >>

\* the holder of a *Device (RegisterDevice's caller, or whoever GetDevice
\* gave it to) clears its Online flag: the pointer is the registry's record
holderSetsOffline(id) ==
  /\ GetDeviceResult(id).exists
  /\ mDevices' = [mDevices EXCEPT ![id].Online = FALSE]
  /\ mLast' = [NoCall EXCEPT !.op = "holder", !.id = id]
  /\ UNCHANGED << readings, added, hDevices, registeredEver >>

\* what Manager.GetRecentReadings(limit) returns
GetRecentReadingsResult(limit) ==
  LET n == IF limit <= 0 \/ limit > Len(readings) THEN Len(readings) ELSE limit
      start == Len(readings) - n
  IN  SubSeq(readings, start + 1, Len(readings))

\* Manager.GetRecentReadings
GetRecentReadings(limit) ==
  /\ Len(GetRecentReadingsResult(limit)) <= Len(readings)
  /\ mLast' = [NoCall EXCEPT !.op = "GetRecentReadings", !.limit = limit]
  /\ UNCHANGED << mDevices, readings, added, hDevices, registeredEver >>

\* a slip: a device that is offline is commanded all the same
ProcessCommandResultAnyState(id) ==
  LET g == GetDeviceResult(id)
  IN  IF ~g.exists
      THEN [DeviceID |-> id, Status |-> "error", Error |-> "device not found"]
      ELSE [DeviceID |-> id, Status |-> "success", Error |-> ""]

\* the Response of Manager.ProcessCommand for a command to device id
ProcessCommandResult(id) ==
  LET g == GetDeviceResult(id)
  IN  IF ~g.exists
      THEN [DeviceID |-> id, Status |-> "error", Error |-> "device not found"]
      ELSE IF ~g.device.Online
           THEN [DeviceID |-> id, Status |-> "error", Error |-> "device offline"]
           ELSE [DeviceID |-> id, Status |-> "success", Error |-> ""]

\* Manager.ProcessCommand
ProcessCommand(id) ==
  /\ ProcessCommandResult(id).DeviceID = id
  /\ mLast' = [NoCall EXCEPT !.op = "ProcessCommand", !.id = id]
  /\ UNCHANGED << mDevices, readings, added, hDevices, registeredEver >>

\* handleDeviceRegistration of the stream-typed handler: the decoded Device
\* is stamped and stored
handleDeviceRegistration(device) ==
  /\ hDevices' = [hDevices EXCEPT ![device.ID] =
                    [device EXCEPT !.Status = "online", !.LastSeen = "now"]]
  /\ registeredEver' = [registeredEver EXCEPT !.h = @ \cup {device.ID}]
  /\ mLast' = [NoCall EXCEPT !.op = "handleDeviceRegistration", !.id = device.ID]
  /\ UNCHANGED << mDevices, readings, added >>

\* device, exists := h.devices[deviceID]; the zero Device when it misses
GetDeviceStatusResult(deviceID) ==
  IF deviceID \in DOMAIN hDevices /\ hDevices[deviceID] # ZeroDevice
  THEN [device |-> hDevices[deviceID], exists |-> TRUE]
  ELSE [device |-> ZeroDevice, exists |-> FALSE]

\* Handler.GetDeviceStatus
GetDeviceStatus(deviceID) ==
  /\ GetDeviceStatusResult(deviceID).exists \in BOOLEAN
  /\ mLast' = [NoCall EXCEPT !.op = "GetDeviceStatus", !.id = deviceID]
  /\ UNCHANGED << mDevices, readings, added, hDevices, registeredEver >>

(***************************************************************************)
(* The loops of the stream-typed handler: handleSensorStream on a stream   *)
(* whose first message had type sensor_data, handleControlStream on one of *)
(* type control_command.  One turn of a loop is one step.                  *)
(***************************************************************************)
\* failed Decode calls followed on one stream
MaxDecodeErrors == 2

\* the streams HandleStream has handed to a loop, by the type of their first message
KindStreams == {"sensor_data", "control_command"}

\* what the bytes on the stream make of the next Decode: a value, a JSON
\* value of the wrong type (the decoder goes on behind it), or a syntax
\* error or the end of the stream (the decoder keeps the error)
DecodeOutcomes == {"ok", "mismatch", "broken"}

\* the Command of a ControlCommand
Commands == {"read_sensor", "restart", "reboot"}

VARIABLES
  kpc,            \* per stream: "loop" (in its for loop) or "returned"
  decoderErr,     \* per stream: the json.Decoder holds an error and returns it to every call
  decodeErrors,   \* per stream: Decode calls that returned an error so far
  hSensorChan,    \* Handler.sensorDataChan of the stream-typed handler, by device id
  hLastResponse   \* the Status of the ControlResponse written last

kindVars == << kpc, decoderErr, decodeErrors, hSensorChan, hLastResponse >>

KindInit ==
  /\ kpc = [k \in KindStreams |-> "loop"]
  /\ decoderErr = [k \in KindStreams |-> FALSE]
  /\ decodeErrors = [k \in KindStreams |-> 0]
  /\ hSensorChan = << >>
  /\ hLastResponse = "none"

\* decoder.Decode(&v): a decoder that holds an error returns it
Decode(k, outcome) == IF decoderErr[k] THEN "broken" ELSE outcome

\* if err := decoder.Decode(&v); err != nil { log; continue }: the failed
\* Decode of one turn; the loop goes on with its next turn
decodeFails(k, r) ==
  /\ decodeErrors[k] < MaxDecodeErrors
  /\ decodeErrors' = [decodeErrors EXCEPT ![k] = @ + 1]
  /\ decoderErr' = [decoderErr EXCEPT ![k] = (r = "broken")]
  /\ UNCHANGED kpc

\* case <-ctx.Done(): return ctx.Err() -- with a default case beside it the
\* select takes this case whenever the context is done
kindStreamDone(k) ==
  /\ kpc[k] = "loop"
  /\ ctxCancelled
  /\ kpc' = [kpc EXCEPT ![k] = "returned"]
  /\ UNCHANGED << decoderErr, decodeErrors, hSensorChan, hLastResponse, managerVars >>

\* handleSensorStream, one turn through the default case
handleSensorStream ==
  /\ kpc["sensor_data"] = "loop"
  /\ ~ctxCancelled
  /\ \E outcome \in DecodeOutcomes, id \in LookupIDs :
       LET r == Decode("sensor_data", outcome)
       IN  IF r # "ok"
           THEN /\ decodeFails("sensor_data", r)
                /\ UNCHANGED << hSensorChan, hDevices >>
           ELSE /\ hDevices' = IF GetDeviceStatusResult(id).exists
                               THEN [hDevices EXCEPT ![id].LastSeen = "now"]
                               ELSE hDevices
                /\ hSensorChan' = trySend(hSensorChan, id, SensorChanCap).q
                /\ UNCHANGED << kpc, decoderErr, decodeErrors >>
  /\ UNCHANGED << hLastResponse, mDevices, readings, added, registeredEver, mLast >>

\* processControlCommand: the Status of its response
processControlCommandResult(id, command) ==
  IF ~GetDeviceStatusResult(id).exists THEN "error"
  ELSE IF command \in {"read_sensor", "set_threshold", "calibrate", "restart"}
       THEN "success" ELSE "error"

\* handleControlStream, one turn through the default case
handleControlStream ==
  /\ kpc["control_command"] = "loop"
  /\ ~ctxCancelled
  /\ \E outcome \in DecodeOutcomes, id \in LookupIDs, command \in Commands,
        encodeOk \in BOOLEAN :
       LET r == Decode("control_command", outcome)
       IN  IF r # "ok"
           THEN /\ decodeFails("control_command", r)
                /\ UNCHANGED << hLastResponse, hDevices >>
           ELSE /\ hDevices' = IF GetDeviceStatusResult(id).exists /\ command = "restart"
                               THEN [hDevices EXCEPT ![id].Status = "restarting"]
                               ELSE hDevices
                /\ IF encodeOk
                   THEN /\ hLastResponse' = processControlCommandResult(id, command)
                        /\ UNCHANGED kpc
                   ELSE /\ kpc' = [kpc EXCEPT !["control_command"] = "returned"]
                        /\ UNCHANGED hLastResponse
                /\ UNCHANGED << decoderErr, decodeErrors >>
  /\ UNCHANGED << hSensorChan, mDevices, readings, added, registeredEver, mLast >>

(***************************************************************************)
(* The two locks of the streaming handler: Handler.mutex over the session  *)
(* index and ActiveStream.mutex over one session's Stats, taken by the     *)
(* session goroutines (startStream, updateStreamStats, adaptBitrate, the   *)
(* deferred teardown) and by callers of GetActiveStreams and StopStream.   *)
(* A sync.RWMutex: Lock first excludes the other writers and new readers,  *)
(* then waits until the readers inside have left; RLock waits while a      *)
(* writer has done the former.                                             *)
(***************************************************************************)
NoHolder == "none"

\* an RWMutex nobody holds: w the writer that has announced itself, held
\* whether it is inside, r the readers inside
FreeMutex == [w |-> NoHolder, held |-> FALSE, r |-> {}]

\* Lock, first half: no other writer has announced itself
CanAnnounce(m) == m.w = NoHolder
Announce(m, t) == [m EXCEPT !.w = t]
\* Lock, second half: the readers have left
CanLock(m, t) == m.w = t /\ ~m.held /\ m.r = {}
Lock(m) == [m EXCEPT !.held = TRUE]
\* a slip: the lock is not released
UnlockKept(m) == m
\* Unlock
Unlock(m) == [m EXCEPT !.w = NoHolder, !.held = FALSE]
\* RLock and RUnlock
CanRLock(m) == m.w = NoHolder
RLock(m, t) == [m EXCEPT !.r = @ \cup {t}]
RUnlock(m, t) == [m EXCEPT !.r = @ \ {t}]

\* the goroutines: one per session, a caller of GetActiveStreams
\* (monitorStreaming) and a caller of StopStream
LockThreads == Streams \cup {"getter", "stopper"}

\* the sessions started with adaptive = true
lAdaptive == [s \in Streams |-> s = "s1"]

VARIABLES
  lpc,      \* per goroutine: the operation it is in and where it stands in it
  hMutex,   \* Handler.mutex
  sMutex,   \* ActiveStream.mutex of each session
  lIndex,   \* the sessions in Handler.activeStreams
  gTodo,    \* GetActiveStreams: the sessions its range has still to visit
  gCur      \* GetActiveStreams: the session its range is at

lockVars == << lpc, hMutex, sMutex, lIndex, gTodo, gCur >>

\* a goroutine in no operation
Rest(at) == [op |-> "none", at |-> at]
In(op, at) == [op |-> op, at |-> at]
Resting(t) == lpc[t].op = "none"

LockInit ==
  /\ lpc = [t \in LockThreads |-> IF t \in Streams THEN Rest("new") ELSE Rest("idle")]
  /\ hMutex = FreeMutex
  /\ sMutex = [s \in Streams |-> FreeMutex]
  /\ lIndex = {}
  /\ gTodo = {}
  /\ gCur = NoStream

\* the operations that take Handler.mutex for writing
HandlerWriters == {"startStream", "deferred", "StopStream"}

\* h.mutex.Lock() is called
hLockAnnounce(t) ==
  /\ lpc[t].op \in HandlerWriters /\ lpc[t].at = "want"
  /\ CanAnnounce(hMutex)
  /\ hMutex' = Announce(hMutex, t)
  /\ lpc' = [lpc EXCEPT ![t].at = "drain"]
  /\ UNCHANGED << sMutex, lIndex, gTodo, gCur >>

\* h.mutex.Lock() returns
hLockAcquire(t) ==
  /\ lpc[t].op \in HandlerWriters /\ lpc[t].at = "drain"
  /\ CanLock(hMutex, t)
  /\ hMutex' = Lock(hMutex)
  /\ lpc' = [lpc EXCEPT ![t].at = "held"]
  /\ UNCHANGED << sMutex, lIndex, gTodo, gCur >>

\* startStream is called for a session
startStreamBegin(s) ==
  /\ lpc[s] = Rest("new")
  /\ lpc' = [lpc EXCEPT ![s] = In("startStream", "want")]
  /\ UNCHANGED << hMutex, sMutex, lIndex, gTodo, gCur >>

\* h.activeStreams[streamID] = activeStream; h.mutex.Unlock(); streamVideo begins
startStreamInsert(s) ==
  /\ lpc[s] = In("startStream", "held")
  /\ lIndex' = lIndex \cup {s}
  /\ hMutex' = Unlock(hMutex)
  /\ lpc' = [lpc EXCEPT ![s] = Rest("loop")]
  /\ UNCHANGED << sMutex, gTodo, gCur >>

\* streamVideo's ticker case has sent its chunk and calls updateStreamStats
updateStreamStatsBegin(s) ==
  /\ lpc[s] = Rest("loop")
  /\ lpc' = [lpc EXCEPT ![s] = In("updateStreamStats", "want")]
  /\ UNCHANGED << hMutex, sMutex, lIndex, gTodo, gCur >>

\* activeStream.mutex.Lock() is called
updateStreamStatsAnnounce(s) ==
  /\ lpc[s] = In("updateStreamStats", "want")
  /\ CanAnnounce(sMutex[s])
  /\ sMutex' = [sMutex EXCEPT ![s] = Announce(sMutex[s], s)]
  /\ lpc' = [lpc EXCEPT ![s].at = "drain"]
  /\ UNCHANGED << hMutex, lIndex, gTodo, gCur >>

\* activeStream.mutex.Lock() returns
updateStreamStatsAcquire(s) ==
  /\ lpc[s] = In("updateStreamStats", "drain")
  /\ CanLock(sMutex[s], s)
  /\ sMutex' = [sMutex EXCEPT ![s] = Lock(sMutex[s])]
  /\ lpc' = [lpc EXCEPT ![s].at = "held"]
  /\ UNCHANGED << hMutex, lIndex, gTodo, gCur >>

\* the Stats are written and the deferred Unlock runs; an adaptive session
\* goes on into adaptBitrate
updateStreamStatsEnd(s) ==
  /\ lpc[s] = In("updateStreamStats", "held")
  /\ sMutex' = [sMutex EXCEPT ![s] = Unlock(sMutex[s])]
  /\ lpc' = [lpc EXCEPT ![s] = IF lAdaptive[s] THEN In("adaptBitrate", "want")
                                ELSE Rest("loop")]
  /\ UNCHANGED << hMutex, lIndex, gTodo, gCur >>

\* adaptBitrate: activeStream.mutex.RLock()
adaptBitrateRLock(s) ==
  /\ lpc[s] = In("adaptBitrate", "want")
  /\ CanRLock(sMutex[s])
  /\ sMutex' = [sMutex EXCEPT ![s] = RLock(sMutex[s], s)]
  /\ lpc' = [lpc EXCEPT ![s].at = "held"]
  /\ UNCHANGED << hMutex, lIndex, gTodo, gCur >>

\* adaptBitrate: the signals are read, RUnlock, and the rest runs without lock
adaptBitrateRUnlock(s) ==
  /\ lpc[s] = In("adaptBitrate", "held")
  /\ sMutex' = [sMutex EXCEPT ![s] = RUnlock(sMutex[s], s)]
  /\ lpc' = [lpc EXCEPT ![s] = Rest("loop")]
  /\ UNCHANGED << hMutex, lIndex, gTodo, gCur >>

\* streamVideo returns and startStream's deferred function begins
deferredBegin(s) ==
  /\ lpc[s] = Rest("loop")
  /\ lpc' = [lpc EXCEPT ![s] = In("deferred", "want")]
  /\ UNCHANGED << hMutex, sMutex, lIndex, gTodo, gCur >>

\* delete(h.activeStreams, streamID); h.mutex.Unlock(); cancel()
deferredDelete(s) ==
  /\ lpc[s] = In("deferred", "held")
  /\ lIndex' = lIndex \ {s}
  /\ hMutex' = Unlock(hMutex)
  /\ lpc' = [lpc EXCEPT ![s] = Rest("closed")]
  /\ UNCHANGED << sMutex, gTodo, gCur >>

\* GetActiveStreams is called
GetActiveStreamsBegin ==
  /\ lpc["getter"] = Rest("idle")
  /\ lpc' = [lpc EXCEPT !["getter"] = In("GetActiveStreams", "want")]
  /\ UNCHANGED << hMutex, sMutex, lIndex, gTodo, gCur >>

\* h.mutex.RLock(); the range over h.activeStreams begins
GetActiveStreamsRLock ==
  /\ lpc["getter"] = In("GetActiveStreams", "want")
  /\ CanRLock(hMutex)
  /\ hMutex' = RLock(hMutex, "getter")
  /\ gTodo' = lIndex
  /\ lpc' = [lpc EXCEPT !["getter"].at = "range"]
  /\ UNCHANGED << sMutex, lIndex, gCur >>

\* the range comes to its next session and calls stream.mutex.RLock()
GetActiveStreamsVisit ==
  /\ lpc["getter"] = In("GetActiveStreams", "range")
  /\ \E s \in gTodo : gCur' = s
  /\ lpc' = [lpc EXCEPT !["getter"].at = "streamWant"]
  /\ UNCHANGED << hMutex, sMutex, lIndex, gTodo >>

\* stream.mutex.RLock() returns
GetActiveStreamsStreamRLock ==
  /\ lpc["getter"] = In("GetActiveStreams", "streamWant")
  /\ CanRLock(sMutex[gCur])
  /\ sMutex' = [sMutex EXCEPT ![gCur] = RLock(sMutex[gCur], "getter")]
  /\ lpc' = [lpc EXCEPT !["getter"].at = "streamHeld"]
  /\ UNCHANGED << hMutex, lIndex, gTodo, gCur >>

\* stats[id] = stream.Stats; stream.mutex.RUnlock()
GetActiveStreamsStreamRUnlock ==
  /\ lpc["getter"] = In("GetActiveStreams", "streamHeld")
  /\ sMutex' = [sMutex EXCEPT ![gCur] = RUnlock(sMutex[gCur], "getter")]
  /\ gTodo' = gTodo \ {gCur}
  /\ gCur' = NoStream
  /\ lpc' = [lpc EXCEPT !["getter"].at = "range"]
  /\ UNCHANGED << hMutex, lIndex >>

\* the range is over: return stats, and the deferred h.mutex.RUnlock()
GetActiveStreamsReturn ==
  /\ lpc["getter"] = In("GetActiveStreams", "range")
  /\ gTodo = {}
  /\ hMutex' = RUnlock(hMutex, "getter")
  /\ lpc' = [lpc EXCEPT !["getter"] = Rest("idle")]
  /\ UNCHANGED << sMutex, lIndex, gTodo, gCur >>

\* StopStream is called
StopStreamBegin ==
  /\ lpc["stopper"] = Rest("idle")
  /\ lpc' = [lpc EXCEPT !["stopper"] = In("StopStream", "want")]
  /\ UNCHANGED << hMutex, sMutex, lIndex, gTodo, gCur >>

\* the lookup, stream.Cancel() and delete for a session that is registered
\* or the error for one that is not, and the deferred h.mutex.Unlock()
StopStreamEnd ==
  /\ lpc["stopper"] = In("StopStream", "held")
  /\ \E s \in Streams : lIndex' = lIndex \ {s}
  /\ hMutex' = Unlock(hMutex)
  /\ lpc' = [lpc EXCEPT !["stopper"] = Rest("idle")]
  /\ UNCHANGED << sMutex, gTodo, gCur >>

(***************************************************************************)
(* The streaming handler over a ladder other than NewHandler's: the        *)
(* handshake reads h.videoQualities, a field a Handler value can hold any  *)
(* slice in, the empty one included.                                       *)
(***************************************************************************)
VARIABLES
  hVideoQualities   \* Handler.videoQualities of the handler serving the streams

handlerVars == << hVideoQualities >>

\* NewHandler
HandlerInit == hVideoQualities = videoQualities

\* the tiers of NewHandler's ladder at the positions in keep, in ladder order
RECURSIVE subLadder(_, _)
subLadder(i, keep) ==
  IF i > Len(videoQualities) THEN << >>
  ELSE IF i \in keep THEN << videoQualities[i] >> \o subLadder(i + 1, keep)
       ELSE subLadder(i + 1, keep)

\* the ladders followed: the empty one, and ladders of some of NewHandler's
\* tiers (every tier of a ladder has a name)
Ladders == {subLadder(1, keep) : keep \in {{}, {1}, {4}, {2, 3}, {1, 2, 3, 4}}}

\* a handler over any of them
LadderInit == hVideoQualities \in Ladders

\* the requests of the handshakes followed: a name and dimensions of
\* NewHandler's ladder or of no ladder, a bitrate below or above every tier
HandshakeRequests ==
  {r \in ValidateRequests :
     /\ r.Name \in {"720p", "4k"}
     /\ << r.Width, r.Height >> \in {<< 1280, 720 >>, << 0, 0 >>}
     /\ (r.Name = "720p") = (r.Width = 1280)
     /\ r.Bitrate \in {0, 9000}}

(***************************************************************************)
(* Specifications.                                                         *)
(***************************************************************************)
vars ==
  << streamVars, adaptVars, iotVars, dispatchVars, validateVars, longVars, sweepVars,
     mainVars, managerVars, handlerVars, headerVars, kindVars, lockVars, timedVars, envelopeVars >>

\* what a step of the streaming handler leaves alone
notStream ==
  << adaptVars, iotVars, dispatchVars, validateVars, longVars, sweepVars,
     mainVars, managerVars, handlerVars, headerVars, kindVars, lockVars, timedVars, envelopeVars >>

\* what a step of the adaptation loop leaves alone
notAdapt ==
  << streamVars, iotVars, dispatchVars, validateVars, longVars, sweepVars,
     mainVars, managerVars, handlerVars, headerVars, kindVars, lockVars, timedVars, envelopeVars >>

\* what a step of the telemetry handler leaves alone
notIoT ==
  << streamVars, adaptVars, dispatchVars, validateVars, longVars, sweepVars,
     mainVars, managerVars, handlerVars, headerVars, kindVars, lockVars, timedVars, envelopeVars >>

\* what a step of the transport server leaves alone
notDispatch ==
  << streamVars, adaptVars, iotVars, validateVars, longVars, sweepVars,
     mainVars, managerVars, handlerVars, headerVars, kindVars, lockVars, timedVars, envelopeVars >>

\* what a step of the monitor alone leaves alone, the registry apart
notSweep ==
  << streamVars, adaptVars, dispatchVars, validateVars, longVars,
     mainVars, managerVars, handlerVars, headerVars, kindVars, lockVars, timedVars, envelopeVars >>

\* what a step of the long run leaves alone
notLong ==
  << streamVars, adaptVars, iotVars, dispatchVars, validateVars, sweepVars,
     mainVars, managerVars, handlerVars, headerVars, kindVars, lockVars, timedVars, envelopeVars >>

\* what a step of the quality resolution leaves alone
notValidate ==
  << streamVars, adaptVars, iotVars, dispatchVars, longVars, sweepVars,
     mainVars, managerVars, handlerVars, headerVars, kindVars, lockVars, timedVars, envelopeVars >>

StreamNext ==
  \/ \E s \in Streams : HandleStream(s) /\ UNCHANGED notStream
  \/ \E s \in Streams : startStream(s) /\ UNCHANGED notStream
  \/ \E s \in Streams : streamVideoTick(s) /\ UNCHANGED notStream
  \/ \E s \in Streams : streamVideoDone(s) /\ UNCHANGED notStream
  \/ \E s \in Streams : startStreamDeferred(s) /\ UNCHANGED notStream
  \/ \E id \in StreamIDs : StopStream(id) /\ UNCHANGED notStream
  \/ GetActiveStreams /\ UNCHANGED notStream
  \/ CancelContext /\ UNCHANGED notStream

AdaptNext ==
  \/ FeedSignals /\ UNCHANGED notAdapt
  \/ AdaptTick /\ UNCHANGED notAdapt

IoTNext ==
  \/ \E t \in IotStreams : HandleStreamReturn(t) /\ UNCHANGED notIoT
  \/ \E t \in IotStreams : handleSensorData(t) /\ UNCHANGED notIoT
  \/ \E t \in IotStreams : handleSensorDataSend(t) /\ UNCHANGED notIoT
  \/ \E t \in IotStreams : handleCommand(t) /\ UNCHANGED notIoT
  \/ \E t \in IotStreams : handleHeartbeat(t) /\ UNCHANGED notIoT
  \/ \E t \in IotStreams : handleHeartbeatInsert(t) /\ UNCHANGED notIoT
  \/ \E t \in IotStreams : handleHeartbeatOnline(t) /\ UNCHANGED notIoT
  \/ \E t \in IotStreams : concurrentMapFatal(t) /\ UNCHANGED notIoT
  \/ sweepBegin /\ UNCHANGED notIoT
  \/ sweepVisit /\ UNCHANGED notIoT
  \/ sweepMark /\ UNCHANGED notIoT
  \/ monitorDone /\ UNCHANGED notIoT
  \/ ClockTick /\ UNCHANGED notIoT
  \/ processSensorData /\ UNCHANGED notIoT
  \/ processCommand /\ UNCHANGED notIoT
  \/ GetDevicesBegin /\ UNCHANGED notIoT
  \/ GetDevicesEnd /\ UNCHANGED notIoT
  \/ CancelContext /\ UNCHANGED << adaptVars, iotVars, dispatchVars, validateVars, longVars, sweepVars, mainVars, managerVars, handlerVars, headerVars, kindVars, lockVars, timedVars, envelopeVars >>

DispatchNext ==
  \/ \E i \in ConnStreams : peerOpenStream(i) /\ UNCHANGED notDispatch
  \/ \E i \in ConnStreams : acceptStream(i) /\ UNCHANGED notDispatch
  \/ \E i \in ConnStreams : handleStream(i) /\ UNCHANGED notDispatch
  \/ \E i \in ConnStreams : handleStreamReturn(i) /\ UNCHANGED notDispatch
  \/ handleConnectionReturn /\ UNCHANGED notDispatch

ValidateNext ==
  \/ ValidateCall /\ UNCHANGED notValidate
  \/ ValidateDecode /\ UNCHANGED notValidate

SweepNext ==
  \/ SweepRunBegin /\ UNCHANGED notSweep
  \/ SweepRunVisit /\ UNCHANGED notSweep
  \/ SweepRunMark /\ UNCHANGED notSweep
  \/ SweepLater /\ UNCHANGED notSweep

\* what a step of main's goroutines leaves alone
notMain ==
  << streamVars, adaptVars, iotVars, dispatchVars, validateVars, longVars, sweepVars,
     managerVars, handlerVars, headerVars, kindVars, lockVars, timedVars, envelopeVars >>

\* what monitorStreaming's call of GetActiveStreams leaves alone, the
\* streaming handler apart
notMainStream ==
  << adaptVars, iotVars, dispatchVars, validateVars, longVars, sweepVars, managerVars,
     handlerVars, headerVars, kindVars, lockVars, timedVars, envelopeVars >>

\* every loop of the server at work, and main's cancel().  A telemetry
\* envelope is decoded only while the connection is open.
ShutdownNext ==
  \/ \E s \in Streams : part = "streaming" /\ HandleStream(s) /\ UNCHANGED notStream
  \/ \E s \in Streams : part = "streaming" /\ startStream(s) /\ UNCHANGED notStream
  \/ \E s \in Streams : part = "streaming" /\ streamVideoTick(s) /\ UNCHANGED notStream
  \/ \E s \in Streams : part = "streaming" /\ streamVideoDone(s) /\ UNCHANGED notStream
  \/ \E s \in Streams : part = "streaming" /\ startStreamDeferred(s) /\ UNCHANGED notStream
  \/ \E t \in IotStreams :
        part = "telemetry" /\ connPc = "accept" /\ handleCommand(t) /\ UNCHANGED notIoT
  \/ \E t \in IotStreams :
        part = "telemetry" /\ connPc = "accept" /\ handleHeartbeat(t) /\ UNCHANGED notIoT
  \/ \E t \in IotStreams : part = "telemetry" /\ handleHeartbeatInsert(t) /\ UNCHANGED notIoT
  \/ \E t \in IotStreams : part = "telemetry" /\ handleHeartbeatOnline(t) /\ UNCHANGED notIoT
  \/ \E t \in IotStreams : part = "telemetry" /\ concurrentMapFatal(t) /\ UNCHANGED notIoT
  \/ \E t \in IotStreams : part = "telemetry" /\ HandleStreamReturn(t) /\ UNCHANGED notIoT
  \/ part = "telemetry" /\ sweepBegin /\ UNCHANGED notIoT
  \/ part = "telemetry" /\ sweepVisit /\ UNCHANGED notIoT
  \/ part = "telemetry" /\ sweepMark /\ UNCHANGED notIoT
  \/ part = "telemetry" /\ ClockTick /\ UNCHANGED notIoT
  \/ part = "telemetry" /\ monitorDone /\ UNCHANGED notIoT
  \/ part = "telemetry" /\ processIoTDataCommand /\ UNCHANGED notIoT
  \/ part = "telemetry" /\ processIoTDataDone /\ UNCHANGED notMain
  \/ part = "telemetry" /\ handleConnectionReturn /\ UNCHANGED notDispatch
  \/ part = "main" /\ monitorStreamingTick /\ UNCHANGED notMainStream
  \/ part = "main" /\ monitorStreamingDone /\ UNCHANGED notMain
  \/ part = "main" /\ StartSelect /\ UNCHANGED notMain
  \/ part = "main" /\ StartAcceptReturns /\ UNCHANGED notMain
  \/ CancelContext /\ UNCHANGED << adaptVars, iotVars, dispatchVars, validateVars, longVars, sweepVars, mainVars, managerVars, handlerVars, headerVars, kindVars, lockVars, timedVars, envelopeVars >>

InitShutdown ==
  StreamInit /\ AdaptIdle /\ IoTInit /\ DispatchInit /\ ValidateIdle /\ LongIdle /\ SweepIdle
  /\ ShutdownInit /\ ManagerInit /\ HandlerInit /\ HeaderInit /\ KindInit /\ LockInit /\ TimedInit /\ EnvelopeInit

\* what a call of the Manager or of the stream-typed handler leaves alone
notManager ==
  << streamVars, adaptVars, iotVars, dispatchVars, validateVars, longVars, sweepVars,
     mainVars, handlerVars, headerVars, kindVars, lockVars, timedVars, envelopeVars >>

ManagerNext ==
  \/ \E device \in RegisterInputs : RegisterDevice(device) /\ UNCHANGED notManager
  \/ \E data \in SensorInputs : AddSensorData(data) /\ UNCHANGED notManager
  \/ \E id \in LookupIDs : GetDevice(id) /\ UNCHANGED notManager
  \/ \E id \in DeviceIDs : holderSetsOffline(id) /\ UNCHANGED notManager
  \/ \E limit \in Limits : GetRecentReadings(limit) /\ UNCHANGED notManager
  \/ \E id \in LookupIDs : ProcessCommand(id) /\ UNCHANGED notManager
  \/ \E device \in RegistrationInputs : handleDeviceRegistration(device) /\ UNCHANGED notManager
  \/ \E id \in LookupIDs : GetDeviceStatus(id) /\ UNCHANGED notManager

\* the sessions at work, monitorStreaming beside them, and a holder of the
\* map that GetActiveStreams returned
MonitorNext ==
  \/ \E s \in Streams : HandleStream(s) /\ UNCHANGED notStream
  \/ \E s \in Streams : startStream(s) /\ UNCHANGED notStream
  \/ \E s \in Streams : streamVideoTick(s) /\ UNCHANGED notStream
  \/ \E s \in Streams : startStreamDeferred(s) /\ UNCHANGED notStream
  \/ monitorStreamingTick /\ UNCHANGED notMainStream
  \/ modifyStreams /\ UNCHANGED notMain

\* handshakes, and what follows them, on a handler over any ladder; the
\* adaptation of a session is not followed over ladders other than NewHandler's
HandshakeNext ==
  \/ \E s \in Streams :
        HandleStreamFrom(hVideoQualities, HandshakeRequests, s) /\ UNCHANGED notStream
  \/ \E s \in Streams : startStream(s) /\ UNCHANGED notStream
  \/ \E s \in Streams :
        ~sess[s].AdaptiveBitrate /\ streamVideoTick(s) /\ UNCHANGED notStream
  \/ \E s \in Streams : startStreamDeferred(s) /\ UNCHANGED notStream

InitHandshake ==
  StreamInit /\ AdaptIdle /\ IoTInit /\ DispatchInit /\ ValidateIdle /\ LongIdle /\ SweepIdle
  /\ MainInit /\ ManagerInit /\ LadderInit /\ HeaderInit /\ KindInit /\ LockInit /\ TimedInit /\ EnvelopeInit

\* what handleStream and its Read leave alone
notHeader ==
  << streamVars, adaptVars, iotVars, validateVars, longVars, sweepVars,
     mainVars, managerVars, handlerVars, kindVars, lockVars, timedVars, envelopeVars >>

\* the streams of one connection, the identifier read as the transport
\* delivers it
HeaderNext ==
  \/ \E i \in ConnStreams : peerOpenStream(i) /\ UNCHANGED notDispatch
  \/ \E i \in ConnStreams : acceptStream(i) /\ UNCHANGED notDispatch
  \/ \E i \in ConnStreams : handleStreamRead(i) /\ UNCHANGED notHeader
  \/ \E i \in ConnStreams : handleStreamReturn(i) /\ UNCHANGED notDispatch
  \/ handleConnectionReturn /\ UNCHANGED notDispatch

\* what a turn of a stream-typed loop leaves alone, its handler's registry apart
notKind ==
  << streamVars, adaptVars, iotVars, dispatchVars, validateVars, longVars, sweepVars,
     mainVars, handlerVars, headerVars, lockVars, timedVars, envelopeVars >>

\* the loops of the stream-typed handler, registrations beside them, and
\* main's cancel()
KindNext ==
  \/ handleSensorStream /\ UNCHANGED notKind
  \/ handleControlStream /\ UNCHANGED notKind
  \/ \E k \in KindStreams : kindStreamDone(k) /\ UNCHANGED notKind
  \/ \E device \in RegistrationInputs : handleDeviceRegistration(device) /\ UNCHANGED notManager
  \/ CancelContext /\ UNCHANGED notStream

\* what a step at the streaming handler's locks leaves alone
notLock ==
  << streamVars, adaptVars, iotVars, dispatchVars, validateVars, longVars, sweepVars,
     mainVars, managerVars, handlerVars, headerVars, kindVars, timedVars, envelopeVars >>

\* the steps that carry on an operation a session goroutine is in
SessionStep(s) ==
  \/ hLockAnnounce(s) /\ UNCHANGED notLock
  \/ hLockAcquire(s) /\ UNCHANGED notLock
  \/ startStreamInsert(s) /\ UNCHANGED notLock
  \/ updateStreamStatsAnnounce(s) /\ UNCHANGED notLock
  \/ updateStreamStatsAcquire(s) /\ UNCHANGED notLock
  \/ updateStreamStatsEnd(s) /\ UNCHANGED notLock
  \/ adaptBitrateRLock(s) /\ UNCHANGED notLock
  \/ adaptBitrateRUnlock(s) /\ UNCHANGED notLock
  \/ deferredDelete(s) /\ UNCHANGED notLock

\* the steps that carry on a GetActiveStreams call
GetterStep ==
  \/ GetActiveStreamsRLock /\ UNCHANGED notLock
  \/ GetActiveStreamsVisit /\ UNCHANGED notLock
  \/ GetActiveStreamsStreamRLock /\ UNCHANGED notLock
  \/ GetActiveStreamsStreamRUnlock /\ UNCHANGED notLock
  \/ GetActiveStreamsReturn /\ UNCHANGED notLock

\* the steps that carry on a StopStream call
StopperStep ==
  \/ hLockAnnounce("stopper") /\ UNCHANGED notLock
  \/ hLockAcquire("stopper") /\ UNCHANGED notLock
  \/ StopStreamEnd /\ UNCHANGED notLock

\* the next step of the operation goroutine t is in
ThreadStep(t) ==
  IF t \in Streams THEN SessionStep(t)
  ELSE IF t = "getter" THEN GetterStep ELSE StopperStep

LockNext ==
  \/ \E s \in Streams : startStreamBegin(s) /\ UNCHANGED notLock
  \/ \E s \in Streams : updateStreamStatsBegin(s) /\ UNCHANGED notLock
  \/ \E s \in Streams : deferredBegin(s) /\ UNCHANGED notLock
  \/ GetActiveStreamsBegin /\ UNCHANGED notLock
  \/ StopStreamBegin /\ UNCHANGED notLock
  \/ \E s \in Streams : SessionStep(s)
  \/ GetterStep
  \/ StopperStep

\* what a step of the telemetry handler or of the monitor on its ticker
\* leaves alone
notTimed ==
  << streamVars, adaptVars, dispatchVars, validateVars, longVars, sweepVars,
     mainVars, managerVars, handlerVars, headerVars, kindVars, lockVars, envelopeVars >>

\* the telemetry handler serving its streams beside the monitor on its ticker
TimedNext ==
  \/ \E t \in IotStreams : handleSensorData(t) /\ envelopeAt /\ UNCHANGED notTimed
  \/ \E t \in IotStreams : handleCommand(t) /\ envelopeAt /\ UNCHANGED notTimed
  \/ \E t \in IotStreams : handleHeartbeat(t) /\ envelopeAt /\ UNCHANGED notTimed
  \/ \E t \in IotStreams : handleSensorDataSend(t) /\ UNCHANGED << notTimed, timedVars >>
  \/ \E t \in IotStreams : handleHeartbeatInsert(t) /\ UNCHANGED << notTimed, timedVars >>
  \/ \E t \in IotStreams : handleHeartbeatOnline(t) /\ UNCHANGED << notTimed, timedVars >>
  \/ \E t \in IotStreams : concurrentMapFatal(t) /\ UNCHANGED << notTimed, timedVars >>
  \/ tickerFires /\ UNCHANGED notTimed
  \/ tickerSweepBegin /\ UNCHANGED notTimed
  \/ sweepVisit /\ UNCHANGED << notTimed, timedVars >>
  \/ sweepMark /\ UNCHANGED << notTimed, timedVars >>

\* what a step of the telemetry handler leaves alone, the envelope's type apart
notEnvelope ==
  << streamVars, adaptVars, dispatchVars, validateVars, longVars, sweepVars,
     mainVars, managerVars, handlerVars, headerVars, kindVars, lockVars, timedVars >>

\* the telemetry handler serving envelopes of any type, the consumer of
\* its queues and the passing of time beside it
EnvelopeNext ==
  \/ \E t \in IotStreams : HandleStreamMessage(t) /\ UNCHANGED notEnvelope
  \/ \E t \in IotStreams : HandleStreamReturn(t) /\ UNCHANGED notIoT
  \/ \E t \in IotStreams : handleSensorDataSend(t) /\ UNCHANGED notIoT
  \/ \E t \in IotStreams : handleHeartbeatInsert(t) /\ UNCHANGED notIoT
  \/ \E t \in IotStreams : handleHeartbeatOnline(t) /\ UNCHANGED notIoT
  \/ processSensorData /\ UNCHANGED notIoT
  \/ processCommand /\ UNCHANGED notIoT
  \/ ClockTick /\ UNCHANGED notIoT

InitSweep ==
  StreamInit /\ AdaptIdle /\ DispatchInit /\ ValidateIdle /\ LongIdle /\ SweepInit
  /\ MainInit /\ ManagerInit /\ HandlerInit /\ HeaderInit /\ KindInit /\ LockInit /\ TimedInit /\ EnvelopeInit

LongNext == LongTick /\ UNCHANGED notLong

InitLong ==
  StreamInit /\ AdaptIdle /\ IoTInit /\ DispatchInit /\ ValidateIdle /\ LongInit /\ SweepIdle
  /\ MainInit /\ ManagerInit /\ HandlerInit /\ HeaderInit /\ KindInit /\ LockInit /\ TimedInit /\ EnvelopeInit

InitStream ==
  StreamInit /\ AdaptIdle /\ IoTInit /\ DispatchInit /\ ValidateIdle /\ LongIdle /\ SweepIdle
  /\ MainInit /\ ManagerInit /\ HandlerInit /\ HeaderInit /\ KindInit /\ LockInit /\ TimedInit /\ EnvelopeInit

InitAdapt ==
  StreamInit /\ AdaptInit /\ IoTInit /\ DispatchInit /\ ValidateIdle /\ LongIdle /\ SweepIdle
  /\ MainInit /\ ManagerInit /\ HandlerInit /\ HeaderInit /\ KindInit /\ LockInit /\ TimedInit /\ EnvelopeInit

InitValidate ==
  StreamInit /\ AdaptIdle /\ IoTInit /\ DispatchInit /\ ValidateInit /\ LongIdle /\ SweepIdle
  /\ MainInit /\ ManagerInit /\ HandlerInit /\ HeaderInit /\ KindInit /\ LockInit /\ TimedInit /\ EnvelopeInit

\* the streaming handler serving its streams
SpecStream == InitStream /\ [][StreamNext]_vars

\* the adaptation rule under arbitrary signals
SpecAdapt == InitAdapt /\ [][AdaptNext]_vars

\* the telemetry handler serving its streams
SpecIoT == InitStream /\ [][IoTNext]_vars

\* the monitor's sweeps over an arbitrary registry
SpecSweep == InitSweep /\ [][SweepNext]_vars

\* one session's chunks over a long run
SpecLong == InitLong /\ [][LongNext]_vars

\* the quality resolution under arbitrary requests
SpecValidate == InitValidate /\ [][ValidateNext]_vars

\* the transport server dispatching the streams of one connection
SpecDispatch == InitStream /\ [][DispatchNext]_vars

\* the same under the scheduler's guarantees: a goroutine that can run does;
\* a handler need never return and the connection need never end
SpecDispatchLive ==
  /\ SpecDispatch
  /\ \A i \in ConnStreams :
        /\ WF_vars(acceptStream(i) /\ UNCHANGED notDispatch)
        /\ WF_vars(handleStream(i) /\ UNCHANGED notDispatch)

\* the transport server, the identifier's bytes split by the transport
SpecHeader == InitStream /\ [][HeaderNext]_vars

\* the loops of the stream-typed telemetry handler
SpecKind == InitStream /\ [][KindNext]_vars

\* the goroutines at the streaming handler's locks, under the guarantees of
\* the scheduler and of sync: a goroutine that can run does; a goroutine
\* waiting in Lock or RLock gets the lock if it is free again and again
\* (a sync.Mutex hands itself to its longest waiter, and the readers blocked
\* by a writer are let in when it unlocks)
SpecLocks ==
  /\ InitStream /\ [][LockNext]_vars
  /\ \A t \in LockThreads : SF_vars(ThreadStep(t))

\* the telemetry handler beside the monitor on its ticker
SpecTimed == InitStream /\ [][TimedNext]_vars

\* the telemetry handler serving envelopes of any type
SpecEnvelope == InitStream /\ [][EnvelopeNext]_vars

\* handshakes on handlers over any ladder
SpecHandshake == InitHandshake /\ [][HandshakeNext]_vars

\* the statistics monitor beside the sessions
SpecMonitor == InitStream /\ [][MonitorNext]_vars

\* the Manager and the stream-typed handler under arbitrary calls
SpecManager == InitStream /\ [][ManagerNext]_vars

\* the server from start to shutdown, under the guarantees of the Go
\* scheduler and the transport: a goroutine that can run does; a select
\* whose context case is ready again and again takes it (Go picks among the
\* ready cases at random); Accept and AcceptStream return once the context
\* is cancelled; the reads of a stream fail once its connection is closed,
\* which handleConnection's deferred CloseWithError does
SpecShutdown ==
  /\ InitShutdown /\ [][ShutdownNext]_vars
  /\ \A s \in Streams :
        /\ WF_vars(part = "streaming" /\ streamVideoDone(s) /\ UNCHANGED notStream)
  /\ \A t \in IotStreams :
        /\ WF_vars(part = "telemetry" /\ handleHeartbeatInsert(t) /\ UNCHANGED notIoT)
        /\ WF_vars(part = "telemetry" /\ handleHeartbeatOnline(t) /\ UNCHANGED notIoT)
        /\ WF_vars(part = "telemetry" /\ ctxCancelled /\ connPc = "closed"
                     /\ HandleStreamReturn(t) /\ UNCHANGED notIoT)
  /\ WF_vars(part = "telemetry" /\ sweepVisit /\ UNCHANGED notIoT)
  /\ WF_vars(part = "telemetry" /\ sweepMark /\ UNCHANGED notIoT)
  /\ SF_vars(part = "telemetry" /\ monitorDone /\ UNCHANGED notIoT)
  /\ WF_vars(part = "telemetry" /\ processIoTDataDone /\ UNCHANGED notMain)
  /\ WF_vars(part = "telemetry" /\ ctxCancelled /\ handleConnectionReturn
               /\ UNCHANGED notDispatch)
  /\ WF_vars(part = "main" /\ monitorStreamingDone /\ UNCHANGED notMain)
  /\ WF_vars(part = "main" /\ StartSelect /\ UNCHANGED notMain)
  /\ WF_vars(part = "main" /\ ctxCancelled /\ StartAcceptReturns /\ UNCHANGED notMain)

(***************************************************************************)
(* Properties of the streaming handler.                                    *)
(***************************************************************************)
\* the position of a ladder tier
Idx(q) == CHOOSE i \in 1..Len(videoQualities) : videoQualities[i] = q

\* C1: on every stream the chunk headers written carry the sequence numbers
\* 0, 1, 2, ... in the order written, without gap or repeat, whatever the
\* other sessions, StopStream, GetActiveStreams and cancellation do.
C1_SequenceNumbers ==
  \A s \in Streams : \A i \in 1..Len(wire[s]) : wire[s][i].header.SequenceNum = i - 1

\* two sessions under the same stream_id each wrote MaxChunks chunks, one of
\* them after StopStream removed it
C1_Witness ==
  \E s, t \in Streams :
    /\ s # t
    /\ sess[s].ID = sess[t].ID
    /\ Len(wire[s]) = MaxChunks /\ Len(wire[t]) = MaxChunks
    /\ wire[s][MaxChunks].complete
    /\ lastStop[sess[s].ID] = "ok"

\* the rule as the design states it, on ladder positions
RefAdapt(i, b, l) ==
  IF b < 3000 \/ l > 500 THEN (IF i > 1 THEN i - 1 ELSE i)
  ELSE IF b > 8000 /\ l < 100 THEN (IF i < Len(videoQualities) THEN i + 1 ELSE i)
  ELSE i

\* C2: after every adaptBitrate call the quality is the tier the reference
\* rule gives for the quality before the call and the signals of the call.
C2_AdaptRule ==
  (aTicked /\ aPc = "stats") =>
    aQuality = videoQualities[RefAdapt(Idx(aBefore), aHealth, aLoss)]

\* a step down caused by packet loss alone, from a tier that has a lower one
C2_Witness ==
  /\ aTicked /\ aPc = "stats"
  /\ aHealth >= 3000 /\ aLoss > 500
  /\ Idx(aBefore) > 1 /\ Idx(aQuality) = Idx(aBefore) - 1

\* C3: one adaptBitrate call moves the quality by at most one ladder
\* position, whatever the signals.
C3_StepBound ==
  /\ aQuality \in Ladder
  /\ abs(Idx(aQuality) - Idx(aBefore)) <= 1

\* the most extreme signals at the top tier: the quality moved one tier only
C3_Witness ==
  /\ aTicked /\ aPc = "stats"
  /\ aHealth = 0 /\ aLoss = 10000
  /\ Idx(aBefore) = Len(videoQualities)
  /\ Idx(aQuality) = Len(videoQualities) - 1

\* C4: through a run of consecutive ticks whose signals are in the middle
\* zone the quality stays what it was when the run began.
C4_Hysteresis == midRun > 0 => aQuality = aMidQuality

\* MaxMidRun consecutive middle-zone ticks, the last at 0.5 / 0.02
C4_Witness == midRun = MaxMidRun /\ aHealth = 5000 /\ aLoss = 200 /\ aPc = "stats"

\* a call of GetActiveStreams made now reports session s
Reported(s) ==
  sess[s].ID \in StreamIDs /\ GetActiveStreamsResult[sess[s].ID].stream = s

\* C5 (as amended): once StopStream has removed a session, or the session's
\* deferred teardown in startStream has run, no GetActiveStreams call
\* reports that session any more.
C5_TeardownUnreported == \A s \in Streams : sess[s].cancelled => ~Reported(s)

\* one session ended by a failed write and torn down, another removed by
\* StopStream while its loop still runs
C5_Witness ==
  \E s, t \in Streams :
    /\ s # t /\ sess[s].ID # sess[t].ID
    /\ spc[s] = "closed" /\ Len(wire[s]) > 0 /\ ~wire[s][Len(wire[s])].complete
    /\ spc[t] = "loop" /\ sess[t].cancelled /\ lastStop[sess[t].ID] = "ok"

\* C5 as stated: already when the streaming loop has returned (streamVideo
\* is back in startStream, whose deferred function has not run yet) no
\* GetActiveStreams call reports the session.
C5_LoopReturnedUnreported ==
  \A s \in Streams :
    (sess[s].cancelled \/ spc[s] \in {"teardown", "closed"}) => ~Reported(s)

\* C6: a StopStream call on a registered stream_id returns success, and the
\* StopStream call that follows a successful one, with no session registered
\* under the id in between, returns not-found; StopStream can always be
\* called, also between a loop's return and its deferred teardown.
C6_StopTwice ==
  /\ [](\A id \in StreamIDs :
          /\ prevStop[id] = "ok" => lastStop[id] = "notfound"
          /\ ENABLED StopStream(id))
  /\ [][\A id \in StreamIDs :
          (activeStreams[id] # NoStream /\ lastStop'[id] # lastStop[id])
            => (lastStop'[id] = "ok" /\ activeStreams'[id] = NoStream)]_vars

\* StopStream succeeded on a session whose loop had already returned, and
\* the call after it, made after the deferred teardown, returned not-found
C6_Witness ==
  \E s \in Streams :
    /\ spc[s] = "closed" /\ Len(wire[s]) > 0
    /\ prevStop[sess[s].ID] = "ok" /\ lastStop[sess[s].ID] = "notfound"

(***************************************************************************)
(* Properties of the telemetry handler.                                    *)
(***************************************************************************)
\* C7: a command's sender is answered "received" only if the command went
\* onto the command queue; a command that finds the queue full is not
\* answered "received".
C7_ReceivedOnlyIfQueued == lastResponse.status = "received" => lastQueued

\* a reading was dropped in this step
DropsReading == sensorDropped' = sensorDropped + 1

\* C8: a sensor_data envelope never blocks on the data queue: the send of a
\* handler that has touched the registry can always be taken, and every
\* step that drops a reading finds the queue at its capacity, leaves the
\* queue as it was and has the handler back reading its stream.
C8_DropNeverBlocks ==
  /\ [](\A t \in IotStreams :
         (ipc[t] = "sdOnline" /\ ~crashed) => ENABLED handleSensorDataSend(t))
  /\ [][DropsReading =>
          /\ Len(sensorDataChan) = SensorChanCap
          /\ sensorDataChan' = sensorDataChan
          /\ \E t \in IotStreams :
                /\ ipc[t] \in {"read", "sdOnline"}
                /\ ipc'[t] = "read"
                /\ \A u \in IotStreams \ {t} : ipc'[u] = ipc[u]]_vars

\* MaxDrops readings met the full queue, from a registered device, and both
\* handlers are reading their streams again
C8_Witness ==
  /\ sensorDropped = MaxDrops
  /\ Len(sensorDataChan) = SensorChanCap
  /\ \E d \in DeviceIDs : devices[d].registered
  /\ \A t \in IotStreams : ipc[t] = "read"
  /\ ~crashed

\* C9: the handler's drop counter equals the number of readings received
\* but not queued.
C9_DropCounter == droppedCount = sensorDropped

\* C10: no two goroutines are inside the device registry at once when one
\* of them writes.
C10_RegistryExclusive ==
  \A a, b \in Tasks :
    (a # b /\ Accessing(a) = "write") => Accessing(b) = "none"


(***************************************************************************)
(* Properties of the transport server.                                     *)
(***************************************************************************)
\* C11: a stream whose identifier has no registered handler is closed with
\* no handler invoked, the step that closes it leaves the accept loop as it
\* was, and a stream that reaches a handler reaches the one registered for
\* its identifier; the accept loop in its loop takes the oldest open stream
\* whatever became of the earlier ones.
C11_UnknownProtocolLocal ==
  /\ [](\A i \in ConnStreams :
         /\ (qstream[i].pc \in {"handling", "closed"} /\ qstream[i].protocol \notin DOMAIN handlers)
              => (qstream[i].pc = "closed" /\ qstream[i].handler = NoHandler)
         /\ qstream[i].pc = "handling" => qstream[i].handler = handlers[qstream[i].protocol]
         /\ (connPc = "accept" /\ qstream[i].pc = "opened"
               /\ \A j \in ConnStreams : j < i => qstream[j].pc # "opened")
              => ENABLED acceptStream(i))
  /\ [][\A i \in ConnStreams :
          (qstream[i].pc = "header" /\ qstream'[i].pc = "closed") => connPc' = connPc]_vars

\* the first stream carried an unknown identifier and is closed, a later
\* one on the same connection is with the telemetry handler
C11_Witness ==
  /\ connPc = "accept"
  /\ qstream[1] = [pc |-> "closed", protocol |-> "XXXX", handler |-> NoHandler]
  /\ qstream[2] = [pc |-> "handling", protocol |-> ProtocolIoT, handler |-> "iotHandler"]

\* C12: as long as the connection's loop runs, every stream the peer has
\* opened is accepted, and every accepted stream comes to its handler's call
\* or is closed, however long the handlers of earlier streams stay running.
C12_NeverSerialized ==
  \A i \in ConnStreams :
    /\ (qstream[i].pc = "opened") ~> (qstream[i].pc = "header" \/ connPc = "closed")
    /\ (qstream[i].pc = "header") ~> (qstream[i].pc \in {"handling", "closed"})

\* the first stream's handler has not returned and the last stream opened
\* is with its handler
C12_Witness ==
  /\ qstream[1].pc = "handling" /\ qstream[1].handler = "streamingHandler"
  /\ qstream[MaxStreams].pc = "handling"


(***************************************************************************)
(* Properties of the quality resolution.                                   *)
(***************************************************************************)
\* C13: the resolved tier is a tier of the requested name if the ladder has
\* one; if it has none, a tier of the requested width and height if the
\* ladder has one; if it has none either, a tier whose bitrate is nearest
\* the requested bitrate.
C13_Precedence ==
  vPc = "done" =>
    LET r == vResult.quality
    IN  IF \E q \in Ladder : q.Name = vRequested.Name
        THEN vResult.ok /\ r \in Ladder /\ r.Name = vRequested.Name
        ELSE IF \E q \in Ladder : q.Width = vRequested.Width /\ q.Height = vRequested.Height
             THEN /\ vResult.ok /\ r \in Ladder
                  /\ r.Width = vRequested.Width /\ r.Height = vRequested.Height
             ELSE /\ vResult.ok /\ r \in Ladder
                  /\ \A q \in Ladder :
                       abs(r.Bitrate - vRequested.Bitrate) <= abs(q.Bitrate - vRequested.Bitrate)


(***************************************************************************)
(* Properties of the chunks.                                               *)
(***************************************************************************)
\* C14: a chunk is a keyframe exactly when its sequence number is a
\* multiple of 30.
C14_KeyframePeriod ==
  kSeq > 0 =>
    (kChunk.IsKeyframe <=> \E k \in 0..MaxSeqNum : kChunk.SequenceNum = 30 * k)

\* the third keyframe of a session
C14_Witness == kSeq = 61 /\ kChunk.SequenceNum = 60 /\ kChunk.IsKeyframe

\* C15: every chunk written to a stream has the size of the tier its own
\* header carries, bitrate * 1000 / 8 * chunk duration.
C15_ChunkSizeOfQuality ==
  \A s \in Streams : \A i \in 1..Len(wire[s]) :
    wire[s][i].header.Size =
      ((wire[s][i].header.Quality.Bitrate * 1000) \div 8) * chunkDuration


(***************************************************************************)
(* Properties of the registry sweep.                                       *)
(***************************************************************************)
\* C16: the sweep sets Online to false only on devices whose last message
\* is more than the timeout old, and leaves every other record as it is: a
\* step that takes a device offline acts on a device with
\* now - LastSeen > timeout and changes nothing else of the registry.
C16_SweepMarksStale ==
  [][\A d \in DeviceIDs :
       (devices[d].Online /\ ~devices'[d].Online) =>
          /\ now - devices[d].LastSeen > heartbeatTimeout
          /\ devices' = [devices EXCEPT ![d].Online = FALSE]]_vars

\* C17: a sweep run right after another at the same time leaves the
\* registry as the first left it, and a sweep that begins with no stale
\* device changes no record.
C17_SweepIdempotent ==
  /\ (mpc = "wait" /\ swRuns >= 2) => devices = swBefore
  /\ (\A d \in DeviceIDs :
        ~(swBefore[d].registered /\ swAt - swBefore[d].LastSeen > heartbeatTimeout))
       => devices = swBefore

\* the second sweep in a row has run over a registry holding a stale device
\* the first had to mark
C17_Witness ==
  /\ mpc = "wait" /\ swRuns = 2
  /\ \E d \in DeviceIDs :
       /\ devices[d].registered /\ ~devices[d].Online
       /\ swAt - devices[d].LastSeen > heartbeatTimeout


(***************************************************************************)
(* Properties of the envelope handlers.                                    *)
(***************************************************************************)
\* C18: every envelope of a registered device sets the device's LastSeen to
\* the time of receipt and its Online flag: the handler of a heartbeat or a
\* reading writes LastSeen = now when it takes the envelope up and Online
\* when it goes on, and a command that is queued has done both.
C18_EveryEnvelopeTouches ==
  [][/\ \A t \in IotStreams :
          /\ (ipc[t] = "read" /\ ipc'[t] \in {"sdOnline", "hbOnline"})
               => devices'[idev'[t]].LastSeen = now
          /\ (ipc[t] \in {"sdOnline", "hbOnline"} /\ ipc'[t] # ipc[t])
               => devices'[idev[t]].Online
     /\ Len(commandChan') > Len(commandChan) =>
          LET d == commandChan'[Len(commandChan')]
          IN  devices[d].registered =>
                (devices'[d].LastSeen = now /\ devices'[d].Online)]_vars


\* a step in which stream t's loop ends where it reads, no envelope handled
EndsReading(t) ==
  /\ ipc[t] = "read" /\ ipc'[t] = "closed"
  /\ commandChan' = commandChan /\ lastResponse' = lastResponse

Responded(t) ==
  \/ ipc'[t] = "read" /\ lastResponse' = [stream |-> t, status |-> "alive"]
  \/ ipc'[t] = "closed" /\ lastResponse' = lastResponse

\* C20: handling a heartbeat of device d leaves d registered and online
\* with LastSeen the time of receipt, the record created if d was unseen
\* and updated otherwise, and writes one response with status "alive" to
\* the stream the heartbeat came on.
C20_HeartbeatTouches ==
  [][\A t \in IotStreams :
       /\ (ipc[t] = "read" /\ ipc'[t] = "hbOnline")
            => /\ devices[idev'[t]].registered
               /\ devices'[idev'[t]].LastSeen = now
       /\ (ipc[t] = "read" /\ ipc'[t] = "hbInsert")
            => ~devices[idev'[t]].registered
       /\ (ipc[t] = "hbInsert" /\ ipc'[t] # "hbInsert")
            => /\ devices'[idev[t]] = [registered |-> TRUE, LastSeen |-> now, Online |-> TRUE]
               /\ Responded(t)
       /\ (ipc[t] = "hbOnline" /\ ipc'[t] # "hbOnline")
            => /\ devices'[idev[t]].registered /\ devices'[idev[t]].Online
               /\ devices'[idev[t]].LastSeen <= now
               /\ Responded(t)]_vars

\* a heartbeat of a device registered earlier has been answered "alive" on
\* its stream; the device is online, last seen now
C20_Witness ==
  \E t \in IotStreams, d \in DeviceIDs :
    /\ now > 0
    /\ lastResponse = [stream |-> t, status |-> "alive"]
    /\ ipc[t] = "read"
    /\ devices[d] = [registered |-> TRUE, LastSeen |-> now, Online |-> TRUE]

(***************************************************************************)
(* Properties of the shutdown.                                             *)
(***************************************************************************)
\* the loops of a part have all returned (a process the runtime has ended
\* runs no loop)
Returned(p) ==
  \/ crashed
  \/ /\ p = "streaming"
     /\ \A s \in Streams : spc[s] # "loop"
  \/ /\ p = "telemetry"
     /\ \A t \in IotStreams : ipc[t] = "closed"
     /\ mpc = "done"
     /\ procPc = "done"
     /\ connPc = "closed"
  \/ /\ p = "main"
     /\ statPc = "done"
     /\ listenPc = "done"

\* C21: once the shared context is cancelled every long-running loop
\* returns and none runs again: the tick loop of every session, every
\* telemetry read loop, the device monitor, processIoTData,
\* monitorStreaming, the connection's accept loop and the listener's.
C21_LoopsTerminate == ctxCancelled ~> [](Returned(part))

\* the context is cancelled and the loops of the telemetry part have all
\* returned, a read loop after it handled a heartbeat
C21_Witness ==
  /\ ctxCancelled /\ ~crashed
  /\ part = "telemetry" /\ Returned(part)
  /\ \E d \in DeviceIDs : devices[d].registered

(***************************************************************************)
(* Further properties of the streaming handler.                            *)
(***************************************************************************)
\* a step of session s: a tick of its loop (with or without adaptation, the
\* chunk written or not), the loop's return, its teardown, or StopStream on
\* its stream_id
StepOf(s) ==
  \/ streamVideoTick(s)
  \/ streamVideoDone(s)
  \/ startStreamDeferred(s)
  \/ StopStream(sess[s].ID)

\* C22: of two sessions with distinct stream ids, a step of one leaves the
\* other's quality, sequence counter, statistics, index entry, running
\* state and stream as they were.
C22_OtherSessionUntouched ==
  [][\A s, t \in Streams :
       ( /\ s # t
         /\ sess[s].ID \in StreamIDs /\ sess[t].ID \in StreamIDs
         /\ sess[s].ID # sess[t].ID
         /\ StepOf(s) )
       => /\ sess'[t] = sess[t]
          /\ sequenceNum'[t] = sequenceNum[t]
          /\ activeStreams'[sess[t].ID] = activeStreams[sess[t].ID]
          /\ spc'[t] = spc[t]
          /\ wire'[t] = wire[t]]_vars

\* one session wrote chunks, was stopped and torn down; the other, under a
\* different stream_id, is still in its loop, registered, its chunks counted
C22_Witness ==
  \E s, t \in Streams :
    /\ s # t /\ sess[s].ID \in StreamIDs /\ sess[t].ID \in StreamIDs
    /\ sess[s].ID # sess[t].ID
    /\ spc[s] = "closed" /\ sess[s].Stats.ChunksSent > 0 /\ lastStop[sess[s].ID] = "ok"
    /\ spc[t] = "loop" /\ activeStreams[sess[t].ID] = t
    /\ sess[t].Stats.ChunksSent = MaxChunks

(***************************************************************************)
(* Properties of the device Manager and of the lookups.                    *)
(***************************************************************************)
\* C23: the lookup of an id that was never registered reports not-found,
\* with the nil or zero record, whatever the registry holds; and a lookup
\* leaves every record, of either registry, and the readings as they were.
C23_LookupMiss ==
  /\ [](\A id \in LookupIDs :
          /\ id \notin registeredEver.m =>
               GetDeviceResult(id) = [device |-> NilDevice, exists |-> FALSE]
          /\ id \notin registeredEver.h =>
               GetDeviceStatusResult(id) = [device |-> ZeroDevice, exists |-> FALSE])
  /\ [][mLast'.op \in {"GetDevice", "GetDeviceStatus"} =>
          UNCHANGED << mDevices, hDevices, readings >>]_vars

\* both registries hold a device, and the call made last is the Manager's
\* lookup of an id nobody registered
C23_Witness ==
  /\ mLast.op = "GetDevice" /\ mLast.id \notin registeredEver.m
  /\ registeredEver.m # {} /\ registeredEver.h # {}
  /\ ~GetDeviceResult(mLast.id).exists

(***************************************************************************)
(* Properties of the statistics monitor.                                   *)
(***************************************************************************)
\* C24: a tick of monitorStreaming, with its call of GetActiveStreams,
\* changes nothing of the streaming handler (index, sessions, counters,
\* streams), and the map it got is a copy: writing to the map changes no
\* session, and a session's later step does not show in the map.
C24_MonitorReadsOnly ==
  [][/\ streams' # streams => UNCHANGED streamVars
     /\ streamVars' # streamVars => streams' = streams]_vars

\* the map holds a session's statistics as they were at the tick, the
\* session has counted a chunk since; the other session's entry was
\* deleted from the map and the session is still registered
C24_Witness ==
  \E s, t \in Streams :
    /\ s # t /\ sess[s].ID \in StreamIDs /\ sess[t].ID \in StreamIDs
    /\ streams[sess[s].ID].stream = s
    /\ streams[sess[s].ID].stats.ChunksSent < sess[s].Stats.ChunksSent
    /\ streams[sess[t].ID] = NoReport
    /\ activeStreams[sess[t].ID] = t /\ sess[t].Stats.ChunksSent > 0

(***************************************************************************)
(* Properties of the handshake.                                            *)
(***************************************************************************)
\* C25: a handshake is answered "error" only by a handler whose ladder is
\* empty, and then no session is built or put into the index and no chunk
\* is written on the stream; a handler whose ladder is not empty resolves
\* every request and answers none with "error".
C25_ErrorOnlyEmptyLadder ==
  /\ \A s \in Streams :
       /\ response[s] = "error" => hVideoQualities = << >>
       /\ response[s] = "error" =>
            /\ spc[s] = "closed" /\ sess[s] = NoSession /\ wire[s] = << >>
            /\ \A id \in StreamIDs : activeStreams[id] # s
       /\ hVideoQualities = << >> =>
            /\ response[s] # "accepted"
            /\ spc[s] \in {"accepted", "closed"}
       /\ spc[s] \in {"start", "loop", "teardown"} => response[s] = "accepted"
  /\ hVideoQualities # << >> =>
       \A requested \in ValidateRequests : validateQualityIn(hVideoQualities, requested).ok

\* both handshakes on a handler with an empty ladder were answered "error"
C25_Witness ==
  /\ hVideoQualities = << >>
  /\ \A s \in Streams : response[s] = "error" /\ spc[s] = "closed"

\* C26: after RegisterDevice(d) the lookup of d.ID reports the device as
\* existing, with the name, type and location of d and online, whatever
\* was registered under the id before; the records of the other ids are
\* what they were.
C26_RegisterThenGet ==
  /\ [](mLast.op = "RegisterDevice" =>
          LET g == GetDeviceResult(mLast.id)
              d == mLast.device
          IN  /\ g.exists
              /\ g.device.ID = d.ID /\ g.device.Name = d.Name
              /\ g.device.Type = d.Type /\ g.device.Location = d.Location
              /\ g.device.Online)
  /\ [][mLast'.op = "RegisterDevice" =>
          \A id \in DeviceIDs \ {mLast'.id} : mDevices'[id] = mDevices[id]]_vars

\* a device was registered last while the other id holds a record that its
\* holder has taken offline
C26_Witness ==
  /\ mLast.op = "RegisterDevice"
  /\ mLast.device.Name = "Hall Sensor"
  /\ \E id \in DeviceIDs \ {mLast.id} :
       GetDeviceResult(id).exists /\ ~GetDeviceResult(id).device.Online

\* the last n elements of a sequence, in order
LastOf(seq, n) == SubSeq(seq, Len(seq) - n + 1, Len(seq))

Min(a, b) == IF a <= b THEN a ELSE b

\* C27: whatever readings were added, the Manager stores at most dataLimit
\* of them: the most recent ones, in the order added; GetRecentReadings(limit)
\* returns the last min(limit, stored) of the stored ones in that order, and
\* all of them when limit is not positive or exceeds their number.
C27_RecentReadings ==
  /\ Len(readings) <= dataLimit
  /\ readings = LastOf(added, Min(dataLimit, Len(added)))
  /\ \A limit \in Limits :
       LET got == GetRecentReadingsResult(limit)
       IN  IF limit <= 0 \/ limit > Len(readings)
           THEN got = readings
           ELSE got = LastOf(readings, Min(limit, Len(readings)))

\* more readings were added than the Manager keeps, the oldest differs from
\* the next one, and the call made last asked for one reading
C27_Witness ==
  /\ Len(added) > dataLimit /\ Len(readings) = dataLimit
  /\ added[1] # added[2]
  /\ mLast.op = "GetRecentReadings" /\ mLast.limit = 1
  /\ GetRecentReadingsResult(1) = << added[Len(added)] >>

\* C28: ProcessCommand answers "success" exactly when the commanded device
\* is registered and online; for an id never registered it answers "error"
\* with "device not found", for a registered device that is offline "error"
\* with "device offline"; and the call leaves the registry as it was.
C28_CommandStatus ==
  /\ [](\A id \in LookupIDs :
          LET r == ProcessCommandResult(id)
              registered == id \in registeredEver.m
          IN  /\ r.Status \in {"success", "error"}
              /\ (r.Status = "success") = (registered /\ mDevices[id].Online)
              /\ ~registered => r.Error = "device not found"
              /\ (registered /\ ~mDevices[id].Online) => r.Error = "device offline")
  /\ [][mLast'.op = "ProcessCommand" => UNCHANGED << mDevices, hDevices, readings >>]_vars

\* the command made last went to a registered device that is offline, while
\* the other device is online
C28_Witness ==
  /\ mLast.op = "ProcessCommand"
  /\ mLast.id \in registeredEver.m
  /\ ProcessCommandResult(mLast.id).Error = "device offline"
  /\ \E id \in DeviceIDs : ProcessCommandResult(id).Status = "success"

C30_RunningIsReported ==
  \A s \in Streams :
    (spc[s] = "loop" /\ ~sess[s].cancelled)
      => /\ activeStreams[sess[s].ID] # NoStream
         /\ GetActiveStreamsResult[sess[s].ID] # NoReport

(***************************************************************************)
(* Properties of the sweep beside the envelope handlers.                   *)
(***************************************************************************)
\* C31: the sweep never writes Online = false on a device whose LastSeen, at
\* the instant of the write, lies within the timeout: a touch that has
\* refreshed LastSeen is not overwritten by a staleness test made on the
\* older LastSeen.
C31_MarkOnlyStale ==
  [][(mpc = "mark" /\ mpc' # "mark")
       => now - devices[mcur].LastSeen > heartbeatTimeout]_vars

(***************************************************************************)
(* Properties of the identifier's read.                                    *)
(***************************************************************************)
\* C32: a stream that begins with a registered identifier reaches that
\* identifier's handler however many of the four bytes the Read returned,
\* as long as the Read returned no error: it is not closed unhandled because
\* the Read returned fewer than four bytes.
C32_SplitHeaderRouted ==
  \A i \in ConnStreams :
    (/\ qstream[i].pc \in {"handling", "closed"}
     /\ firstRead[i].sent \in DOMAIN handlers
     /\ ~firstRead[i].err)
      => qstream[i].handler = handlers[firstRead[i].sent]

(***************************************************************************)
(* Properties of the stream-typed handler's loops.                         *)
(***************************************************************************)
\* C33: once a Decode on its stream has returned an error, the loop of
\* handleSensorStream or handleControlStream has returned: it takes no
\* further turn.
C33_DecodeErrorEndsLoop ==
  \A k \in KindStreams : decodeErrors[k] > 0 => kpc[k] = "returned"

(***************************************************************************)
(* Properties of the session statistics.                                   *)
(***************************************************************************)
\* the chunks of a stream whose three writes all succeeded
Written(s) == SelectSeq(wire[s], LAMBDA c : c.complete)

\* the sum of the sizes of a sequence of chunks
RECURSIVE SizeSum(_)
SizeSum(w) == IF w = << >> THEN 0 ELSE Head(w).header.Size + SizeSum(Tail(w))

\* C34: between ticks, a session's ChunksSent is the number of chunks
\* written whole to its stream and equals streamVideo's next sequence
\* number, and its BytesSent is the sum of the sizes of those chunks; a
\* chunk whose write failed is in neither count.
C34_StatsCountWritten ==
  \A s \in Streams :
    spc[s] \in {"loop", "teardown", "closed"} =>
      /\ sess[s].Stats.ChunksSent = Len(Written(s))
      /\ sess[s].Stats.ChunksSent = sequenceNum[s]
      /\ sess[s].Stats.BytesSent = SizeSum(Written(s))

\* a session wrote one chunk whole, then the write of its second chunk
\* failed after the header; the other session has written MaxChunks chunks
C34_Witness ==
  \E s, u \in Streams :
    /\ Len(wire[s]) = 2 /\ wire[s][1].complete /\ ~wire[s][2].complete
    /\ sess[s].Stats.ChunksSent = 1 /\ sess[s].Stats.BytesSent > 0
    /\ spc[s] = "teardown"
    /\ spc[u] = "loop" /\ sess[u].Stats.ChunksSent = MaxChunks

\* C35: a session started with adaptive = false keeps the quality resolved
\* at the handshake as long as it lives, whatever its BufferHealth and
\* PacketLoss become: no step changes its Quality, and every chunk it has
\* written carries that quality.
C35_FixedQualityKept ==
  /\ [](\A s \in Streams :
          (spc[s] \in {"start", "loop", "teardown"} /\ ~sess[s].AdaptiveBitrate)
            => \A i \in 1..Len(wire[s]) : wire[s][i].header.Quality = sess[s].Quality)
  /\ [][\A s \in Streams :
          (spc[s] \in {"start", "loop", "teardown"} /\ ~sess[s].AdaptiveBitrate)
            => sess'[s].Quality = sess[s].Quality]_vars

\* a session that is not adaptive has written MaxChunks chunks at 720p and
\* its signals are those on which an adaptive session moves up
C35_Witness ==
  \E s \in Streams :
    /\ spc[s] = "loop" /\ ~sess[s].AdaptiveBitrate
    /\ sess[s].Quality.Name = "720p"
    /\ sess[s].Stats.ChunksSent = MaxChunks
    /\ sess[s].Stats.BufferHealth > 8000 /\ sess[s].Stats.PacketLoss < 100
    /\ adaptBitrate(sess[s].Quality, sess[s].Stats.BufferHealth, sess[s].Stats.PacketLoss)
         # sess[s].Quality

(***************************************************************************)
(* Properties of the streaming handler's locks.                            *)
(***************************************************************************)
\* goroutine t is inside a session's lock, reading or writing
HoldsSession(t) ==
  \E s \in Streams : t \in sMutex[s].r \/ (sMutex[s].w = t /\ sMutex[s].held)

\* goroutine t is inside the handler's lock
HoldsHandler(t) == t \in hMutex.r \/ (hMutex.w = t /\ hMutex.held)

\* goroutine t is in Lock or RLock of the handler's lock
WantsHandler(t) ==
  \/ lpc[t].op \in HandlerWriters /\ lpc[t].at \in {"want", "drain"}
  \/ lpc[t] = In("GetActiveStreams", "want")

\* C36: the locks never deadlock.  No goroutine asks for the handler's lock
\* while it is inside a session's lock (the session's lock is only ever
\* taken inside the handler's or alone, never the other way round); as long
\* as some operation is under way some operation under way can take a
\* step; and every operation that has started completes.
C36_NoDeadlock ==
  /\ [](\A t \in LockThreads :
          /\ ~(HoldsSession(t) /\ WantsHandler(t))
          /\ (HoldsSession(t) /\ HoldsHandler(t)) => lpc[t].op = "GetActiveStreams")
  /\ []((\E t \in LockThreads : ~Resting(t))
          => \E t \in LockThreads : ~Resting(t) /\ ENABLED ThreadStep(t))
  /\ \A t \in LockThreads : (~Resting(t)) ~> Resting(t)

\* GetActiveStreams is inside the handler's lock and waits for the lock of
\* a session whose updateStreamStats is inside it, while the other
\* session's deferred teardown and StopStream wait for the handler's lock
C36_Witness ==
  \E s, u \in Streams :
    /\ lpc["getter"] = In("GetActiveStreams", "streamWant") /\ gCur = s
    /\ lpc[s] = In("updateStreamStats", "held")
    /\ lpc[u] = In("deferred", "drain")
    /\ lpc["stopper"] = In("StopStream", "want")

(***************************************************************************)
(* Properties of the monitor's timing.                                     *)
(***************************************************************************)
\* the sweep of the current tick is over and no envelope is being handled
Quiet ==
  /\ ~tickPending /\ mpc = "wait"
  /\ \A t \in IotStreams : ipc[t] \in {"read", "closed"}

\* C37: a registered device whose last envelope was taken up at t0 is
\* offline once the sweep at t0 + 1.5 * timeout is over, and no sweep
\* running at or before t0 + timeout takes it offline.
C37_OfflineWithinBounds ==
  /\ [](\A d \in EnvelopeDevices :
          (/\ Quiet /\ ~crashed /\ devices[d].registered /\ lastEnvelope >= 0
           /\ 2 * (now - lastEnvelope) >= 3 * heartbeatTimeout)
            => ~devices[d].Online)
  /\ [][\A d \in EnvelopeDevices :
          (mpc = "mark" /\ mcur = d /\ devices[d].Online /\ ~devices'[d].Online)
            => now - lastEnvelope > heartbeatTimeout]_vars

(***************************************************************************)
(* Properties of the streaming handshake's order.                          *)
(***************************************************************************)
\* session s is in the index
Indexed(s) == \E id \in StreamIDs : activeStreams[id] = s

\* C38: on every stream the "accepted" response is written before the
\* session enters the index and before any chunk is written, and a stream
\* whose request did not decode or whose response was not written never
\* has a session in the index nor a chunk: a stream that is in the index,
\* in its loop or has a chunk has been answered "accepted"; no step indexes
\* a session or writes a chunk on a stream not yet so answered; and a
\* stream closed unanswered stays closed and unanswered.
C38_AcceptedFirst ==
  /\ [](\A s \in Streams :
          (Indexed(s) \/ spc[s] \in {"loop", "teardown"} \/ wire[s] # << >>)
            => response[s] = "accepted")
  /\ [][\A s \in Streams :
          /\ response[s] # "accepted"
               => (wire'[s] = wire[s] /\ (Indexed(s)' => Indexed(s)))
          /\ (spc[s] = "closed" /\ response[s] # "accepted")
               => (spc'[s] = "closed" /\ response'[s] = response[s])]_vars

\* one stream was answered "accepted", is in the index and has a chunk;
\* the other ended in its handshake with nothing written to it
C38_Witness ==
  \E s, u \in Streams :
    /\ response[s] = "accepted" /\ Indexed(s) /\ Len(wire[s]) > 0
    /\ spc[u] = "closed" /\ response[u] = "none" /\ wire[u] = << >> /\ ~Indexed(u)

(***************************************************************************)
(* Properties of the envelope's type.                                      *)
(***************************************************************************)
\* the types processMessage has a handler for
HandledTypes == {MessageSensorData, MessageCommand, MessageHeartbeat}

\* stream t has received an envelope of a type without handler
UnknownType(t) == msgType[t] \notin HandledTypes \cup {"none"}

\* C39: an envelope whose type is none of sensor_data, command and
\* heartbeat (the type response included) ends its stream's loop: the step
\* that takes it up closes the stream, writes no response and leaves the
\* registry, both queues and the other streams as they were, and the
\* stream's loop handles nothing afterwards.
C39_UnknownTypeEndsLoop ==
  /\ [](\A t \in IotStreams : UnknownType(t) => ipc[t] = "closed")
  /\ [][\A t \in IotStreams :
          (~UnknownType(t) /\ UnknownType(t)') =>
             /\ ipc[t] = "read" /\ ipc'[t] = "closed"
             /\ lastResponse' = lastResponse
             /\ devices' = devices
             /\ sensorDataChan' = sensorDataChan
             /\ commandChan' = commandChan
             /\ \A u \in IotStreams \ {t} : ipc'[u] = ipc[u]]_vars

\* an envelope of type response has ended one stream's loop after a
\* heartbeat was answered on it, while the other stream is in the middle of
\* a reading; the device is registered and a command is queued
C39_Witness ==
  \E t, u \in IotStreams :
    /\ msgType[t] = MessageResponse /\ ipc[t] = "closed"
    /\ lastResponse = [stream |-> t, status |-> "alive"]
    /\ ipc[u] = "sdOnline"
    /\ Len(commandChan) > 0
    /\ \E d \in DeviceIDs : devices[d].registered

====
